---- MODULE Spec2Model ----
(***************************************************************************)
(* Document room subsystem of colabri-doc: the websocket callbacks of      *)
(* src/ws/wscolab.rs (handshake, per-room authorize, load, update, save,   *)
(* close) and the system edit of src/services/doc_edit_service.rs, driven  *)
(* by the room registry (hub) of one organization.                         *)
(*                                                                         *)
(* One document room ("d1" in organization RoomOrg) is modelled.  The CRDT *)
(* document is represented by its version vector (peer -> counter); a      *)
(* batch of operations is the set of peers it advances.                    *)
(***************************************************************************)
EXTENDS Naturals, Integers, Sequences, FiniteSets, TLC

(* ---- bounds ---- *)
MaxPeer == 2
MaxCounter == 2
MaxConn == 2
MaxEdits == 1
MaxStreams == 2
MaxLangs == 1
MaxRows == 1
MaxBlocks == 2
MaxNest == 102
MaxSock == 3
MaxSockSends == 1
SockCap == 1
MaxLagSends == 3
MaxSockSenders == 2
MaxLoaders == 3
MaxSelRows == 2
MaxSelVersion == 2
MaxLookups == 2

Peers == 1..MaxPeer
ConnIds == 1..MaxConn
SockIds == 1..MaxSock
(* what send_task can read besides a load message: a binary frame, a       *)
(* receive error, the end of the stream, text that is no message, a ping   *)
(* and an update message                                                   *)
SockFrames == {"binary", "error", "end", "garbage", "ping", "update"}

(* ---- the environment: users, organizations, tokens ---- *)
Uids == {"a", "adm"}
Orgs == {"o1", "o2"}
RoomOrg == "o1"
CloudAdminPrpl == "r/Colabri-CloudAdmin"
ServicePrpl == "s/colabri-doc"

(* Option values: None is the empty sequence, Some(x) the one-element one *)
None == << >>
Some(x) == << x >>
is_some(o) == o # << >>
unwrap(o) == o[1]

(* str::starts_with *)
starts_with(s, prefix) ==
    /\ Len(s) >= Len(prefix)
    /\ SubSeq(s, 1, Len(prefix)) = prefix

(* format!("{}/u/{}", org_id, uid) *)
user_prpl(org_id, uid) == org_id \o "/u/" \o uid

(* The principal list the identity service returns for a user id. *)
get_prpls(uid) ==
    IF uid = "a" THEN << "o1/u/a" >> ELSE << CloudAdminPrpl >>

(* A token is absent, fails JWT validation, lacks the sub claim, or is a   *)
(* valid token whose sub claim is a user id.                               *)
Tokens == {"none", "invalid", "nosub"} \cup Uids
RpcOutcomes == {"ok", "err", "noclient"}

(* the version insert_doc_stream gives a stream row; no statement of the   *)
(* service changes the version of a row                                    *)
StoredVersion == 1
(* the stream versions a request may name *)
Versions == {0, 1, 2}

(* no document is being walked *)
NoAclDoc == [type |-> Some("colab-statement"), acls |-> FALSE, langs |-> << >>, blocks |-> << >>]

(* the DELETE requests that may run concurrently *)
DeleteReqs == {1, 2}

(* the principal lists the gateway attaches to an HTTP request *)
AppService == "colabri-app"
CallerPrpls == { << "o1/u/a" >>, << "o1/u/a", "s/colabri-app" >>, << CloudAdminPrpl >> }

(* The empty version vector and the package of an empty document *)
ZeroVV == [p \in Peers |-> 0]
EmptyMap == [p \in {} |-> ServicePrpl]
EmptyPackage == [snapshot |-> ZeroVV, peer_map |-> EmptyMap]

(* A row of document_streams: its name, its version and its content, the   *)
(* CBOR blob of a package or NULL.                                         *)
DocumentStreamRow(name, version, content) ==
    [name |-> name, version |-> version, content |-> content]

(* HashMap::insert: binds k to v, replacing an earlier binding *)
map_insert(m, k, v) == [x \in (DOMAIN m) \cup {k} |-> IF x = k THEN v ELSE m[x]]

VARIABLES
    cfg_secret,       \* config.cloud_auth_jwt_secret is Some
    user_ctx_cache,   \* USER_CTX_CACHE: uid -> Option<UserCtx>
    conn_ctx_cache,   \* CONN_CTX_CACHE: conn_id -> Option<ConnCtx>
    conn_state,       \* per connection: "new", "open" (handshake accepted), "closed"
    authed,           \* connections whose per-room authorize returned Write
    room_open,        \* the room is in hub.docs
    doc_vv,           \* version vector of the room's CRDT document
    doc_peer,         \* peer id of the room's own CRDT handle, None until an edit uses it
    room_ctx,         \* doc_state.ctx : Option<DocContext>
    subs,             \* hub.subs[room]
    dirty,            \* doc_state.dirty
    store,            \* the document's rows in the relational store
    edit_pc,          \* position of an edit_doc call
    del_pc,           \* position of each doc_delete call
    checkout,         \* frontier the room's CRDT handle is detached at, None if attached
    acl_doc,          \* the document a move-to-library callback walks
    identity_cache,   \* userctx::USER_CTX_CACHE of the HTTP side: uid -> Option<UserCtx>
    txt,              \* a text element of a JSON model and the CRDT map made from it
    sock,             \* the document session of the plain socket handler
    sel,              \* stream rows of a document and what the loads select of them
    ld,               \* position of each load of the document that is under way
    lib,              \* the library the document row is assigned to
    auth_pc,          \* per connection: what an on_authenticate awaiting the store read
    load_pc,          \* the on_load_document that awaits its insert, None if there is none
    lk,               \* position of each identity lookup of the HTTP side
    last              \* what the most recent operation did

vars == << cfg_secret, user_ctx_cache, conn_ctx_cache, conn_state, authed,
           room_open, doc_vv, doc_peer, room_ctx, subs, dirty, store,
           edit_pc, del_pc, checkout, acl_doc, identity_cache, txt, sock,
           sel, ld, lib, auth_pc, load_pc, lk, last >>

caches == << user_ctx_cache, conn_ctx_cache >>
room == << room_open, doc_vv, doc_peer, room_ctx, subs, dirty, checkout >>
pending == << auth_pc, load_pc >>
side == << identity_cache, lk, txt, sock, sel, ld, lib >>
service == << cfg_secret, caches, pending, conn_state, authed, room, store, edit_pc, del_pc,
             acl_doc >>

Event(op, status, conn, peer, fanout, wrote) ==
    [op |-> op, status |-> status, conn |-> conn, peer |-> peer,
     fanout |-> fanout, wrote |-> wrote, caller |-> << >>, body |-> None]

(* the outcome of an HTTP request: the principals of the caller, the       *)
(* status and the body of the response                                     *)
Response(op, caller, status, body) ==
    [Event(op, status, 0, None, {}, FALSE) EXCEPT !.caller = caller, !.body = body]

(* the libraries: the one the document is in at first, and the others a    *)
(* request can name                                                        *)
HomeLib == 0
Libs == {1}

(* the loads of the document that can be under way at once *)
Loaders == 1..MaxLoaders
NoLoad == [pc |-> "idle", version |-> None, version_v |-> None,
           frontiers |-> [p \in Peers |-> 0], peer_map |-> << >>]

(* no identity lookup under way *)
NoLookup == [pc |-> "idle", uid |-> "", token_roles |-> << >>, via |-> "lookup"]

(* no stream rows under selection *)
NoSel == [streams |-> << >>, done |-> FALSE, fetch |-> 0, load |-> 0]

(* no text element under conversion *)
NoText == [elem |-> None, out |-> None]

(* The plain socket handler before the first connection: docsessions has  *)
(* no session of the document.  doc is the sequence of the updates applied *)
(* to the session's document, bc the sequence of the messages sent on its  *)
(* broadcast channel, of which the channel retains the last SockCap.  Of a *)
(* connection: pc is the position of handle_socket: "new", "connecting"    *)
(* (waiting for its first lock), "created" and "added" (after its first    *)
(* and its second lock), "running" (in the select on its two tasks),       *)
(* "cleanup", "removing" and "unlinking" (before, inside and waiting for   *)
(* the write guard of cleanup_connection) or "closed".  snd is the         *)
(* position of send_task: "idle" (waiting for a frame of its client),      *)
(* "frame" (inside handle_update_message, before the read guard),          *)
(* "applied" (between the import and the broadcast), "loading" (inside     *)
(* handle_load_message, waiting for the client to take the init message),  *)
(* "ponging" (inside handle_ping_message, waiting for the client to take   *)
(* the pong) or "none" (not started, finished or dropped).  rcv is the     *)
(* position of recv_task: "idle" (waiting in rbc.recv), "taken" (waiting   *)
(* for the client to take the message it holds) or "none".  upd is the     *)
(* update send_task handles; held the update recv_task holds; sent the     *)
(* number of update messages read; rx the position in bc of the message    *)
(* the receiver takes next; lim the length of bc when the channel it       *)
(* subscribed to was closed, -1 before; got the updates forwarded to the   *)
(* client.  bc holds the messages of the successive channels of the        *)
(* document one after the other.                                           *)
NoSession ==
    [open |-> FALSE, doc |-> << >>, bc |-> << >>, active |-> {},
     conn |-> [c \in SockIds |->
                 [pc |-> "new", snd |-> "none", rcv |-> "none", upd |-> 0, held |-> 0,
                  sent |-> 0, rx |-> 1, lim |-> -1, got |-> << >>]]]

InitBase ==
    /\ cfg_secret \in BOOLEAN
    /\ user_ctx_cache = [u \in Uids |-> None]
    /\ conn_ctx_cache = [c \in ConnIds |-> None]
    /\ conn_state = [c \in ConnIds |-> "new"]
    /\ authed = {}
    /\ room_open = FALSE
    /\ doc_vv = ZeroVV
    /\ doc_peer = None
    /\ room_ctx = None
    /\ subs = {}
    /\ dirty = FALSE
    /\ edit_pc = [pc |-> "idle", peer_id |-> 1, changes |-> FALSE, edits |-> 0,
                  lib |-> HomeLib]
    /\ del_pc = [d \in DeleteReqs |-> "idle"]
    /\ checkout = None
    /\ identity_cache = [u \in Uids |-> None]
    /\ sock = NoSession
    /\ ld = [l \in Loaders |-> NoLoad]
    /\ lib = HomeLib
    /\ auth_pc = [c \in ConnIds |-> None]
    /\ load_pc = None
    /\ lk = [k \in 1..MaxLookups |-> NoLookup]
    /\ last = Event("init", "Ok", 0, None, {}, FALSE)

(* the stream rows a document starts with: none, a "main" stream with its  *)
(* content, or a "main" stream whose content is NULL                       *)
InitStreams ==
    { << >>,
      << DocumentStreamRow("main", StoredVersion, Some(EmptyPackage)) >>,
      << DocumentStreamRow("main", StoredVersion, None) >> }

(* a document with its JSON model and its stream rows *)
InitStores ==
    { [deleted |-> FALSE, streams |-> s, json |-> Some(ZeroVV)] : s \in InitStreams }

Init ==
    /\ InitBase
    /\ txt = NoText
    /\ sel = NoSel
    /\ store \in InitStores
    /\ acl_doc = NoAclDoc

(* ------------------------------------------------------------------ *)
(* on_auth_handshake                                                   *)
(* ------------------------------------------------------------------ *)

(* the loop over the principals: some principal starts with "<org>/u/" or  *)
(* equals r/Colabri-CloudAdmin                                             *)
has_org_principal(principals, org_id) ==
    \E i \in 1..Len(principals) :
        \/ starts_with(principals[i], org_id \o "/u/")
        \/ principals[i] = CloudAdminPrpl

(* Result of the handshake: the returned bool and the two caches after it. *)
on_auth_handshake(conn_id, org_id, token, rpc, secret, ucache, ccache) ==
    LET reject == [ok |-> FALSE, ucache |-> ucache, ccache |-> ccache] IN
    IF token = "none" THEN reject
    ELSE IF ~secret THEN [ok |-> TRUE, ucache |-> ucache, ccache |-> ccache]
    ELSE IF token \in {"invalid", "nosub"} THEN reject
    ELSE IF rpc # "ok" THEN reject
    ELSE LET uid == token
             principals == get_prpls(uid)
         IN IF ~has_org_principal(principals, org_id) THEN reject
            ELSE [ok |-> TRUE,
                  ucache |-> [ucache EXCEPT ![uid] = Some([principals |-> principals])],
                  ccache |-> [ccache EXCEPT ![conn_id] =
                                 Some([uid |-> uid, org_id |-> org_id])]]

(* Connection ids are handed out in increasing order. *)
Handshake(c, org_id, token, rpc) ==
    /\ conn_state[c] = "new"
    /\ \A d \in ConnIds : d < c => conn_state[d] # "new"
    /\ LET r == on_auth_handshake(c, org_id, token, rpc, cfg_secret,
                                  user_ctx_cache, conn_ctx_cache)
       IN /\ user_ctx_cache' = r.ucache
          /\ conn_ctx_cache' = r.ccache
          /\ conn_state' = IF r.ok THEN [conn_state EXCEPT ![c] = "open"] ELSE conn_state
          /\ last' = Event("handshake", IF r.ok THEN "Ok" ELSE "Rejected", c, None, {}, FALSE)
    /\ UNCHANGED << side, pending, acl_doc, cfg_secret, authed, room, store, edit_pc,
                    del_pc >>

(* ------------------------------------------------------------------ *)
(* auth: the guards of the HTTP endpoints                              *)
(* ------------------------------------------------------------------ *)
is_cloud_admin(prpls) == \E i \in 1..Len(prpls) : prpls[i] = CloudAdminPrpl

(* Ok(principal) is Some(principal), the 403 response is None *)
ensure_service(prpls, service_name) ==
    LET service_prpl == "s/" \o service_name IN
    IF \E i \in 1..Len(prpls) : prpls[i] = service_prpl THEN Some(service_prpl)
    ELSE IF is_cloud_admin(prpls) THEN Some(CloudAdminPrpl)
    ELSE None

ensure_cloud_admin(prpls) ==
    IF is_cloud_admin(prpls) THEN Some(CloudAdminPrpl) ELSE None

(* ------------------------------------------------------------------ *)
(* The relational store (persistence gateway)                          *)
(* ------------------------------------------------------------------ *)
DocOwner == "o1/u/a"
DocViewAcl == {"o1/u/b"}
DbOutcomes == {"ok", "error", "uninit"}

(* get_viewable_document: the row, if the document is in org, not deleted  *)
(* and some principal owns it, may view it, is the org admin or the cloud  *)
(* admin.  TRUE stands for Ok(Some(row)), FALSE for Ok(None).              *)
get_viewable_document(st, org, principals) ==
    /\ org = RoomOrg
    /\ ~st.deleted
    /\ \E i \in 1..Len(principals) :
          \/ principals[i] \in DocViewAcl
          \/ principals[i] = DocOwner
          \/ principals[i] = org \o "/f/admin"
          \/ principals[i] = CloudAdminPrpl

(* the type of the modelled document and the types update_colab_doc knows *)
DocType == "colab-statement"
DocTypes == {"colab-statement", "colab-sheet", "other"}

(* the stream row with the given id, if there is one *)
stream_row(st, id) == IF id \in 1..Len(st.streams) THEN Some(st.streams[id]) ELSE None

(* a load that does not filter on the deleted flag of the document row *)
load_colab_doc_any(st, org) ==
    IF org = RoomOrg
    THEN Some([streams |-> st.streams, json |-> st.json])
    ELSE None

(* load_colab_doc: Some(document) with its stream rows unless the document *)
(* is deleted or in another organization.                                  *)
load_colab_doc(st, org) ==
    IF org = RoomOrg /\ ~st.deleted
    THEN Some([streams |-> st.streams, json |-> st.json])
    ELSE None

(* insert_doc_stream: inserts a new "main" stream row of version           *)
(* StoredVersion holding blob; the id of the row is its position.          *)
insert_doc_stream(st, blob) ==
    [st EXCEPT !.streams = Append(@, DocumentStreamRow("main", StoredVersion, Some(blob)))]

(* update_colab_doc: an unsupported type returns before the commit (the    *)
(* transaction is rolled back); otherwise both UPDATEs run and are         *)
(* committed, then the call fails with RowNotFound if either matched no    *)
(* row.                                                                    *)
update_colab_doc(st, doc_type, doc_stream_id, blob, json) ==
    LET has_stream == doc_stream_id \in 1..Len(st.streams)
        has_model == doc_type = DocType /\ is_some(st.json)
        st1 == IF has_stream THEN [st EXCEPT !.streams[doc_stream_id].content = Some(blob)] ELSE st
        st2 == IF has_model THEN [st1 EXCEPT !.json = Some(json)] ELSE st1
    IN IF doc_type \notin {"colab-statement", "colab-sheet"}
       THEN [res |-> "Err", store |-> st]
       ELSE [res |-> IF has_stream /\ has_model THEN "Ok" ELSE "Err", store |-> st2]

(* ------------------------------------------------------------------ *)
(* on_authenticate                                                     *)
(* ------------------------------------------------------------------ *)
(* on_authenticate up to its await of the store: Err (None) without the    *)
(* context of the connection, without the context of its user, without a   *)
(* database and for a room id that is no UUID; else the organization and   *)
(* the principals get_viewable_document is called with.                    *)
on_authenticate(conn_id, ccache, ucache, db, uuid_ok) ==
    IF ~is_some(ccache[conn_id]) THEN None
    ELSE LET conn_ctx == unwrap(ccache[conn_id]) IN
         IF ~is_some(ucache[conn_ctx.uid]) THEN None
         ELSE IF db = "uninit" THEN None
         ELSE IF ~uuid_ok THEN None
         ELSE Some([org_id |-> conn_ctx.org_id,
                    principals |-> unwrap(ucache[conn_ctx.uid]).principals])

(* the permission on_authenticate answers once the store call returns *)
on_authenticate_permission(call, st, db) ==
    IF db # "ok" THEN "Err"
    ELSE IF get_viewable_document(st, call.org_id, call.principals) THEN "Write"
    ELSE "Deny"

(* The hub asks for the permission of a connection on the room. *)
Authenticate(c, db, uuid_ok) ==
    /\ conn_state[c] = "open"
    /\ c \notin authed
    /\ ~is_some(auth_pc[c])
    /\ LET call == on_authenticate(c, conn_ctx_cache, user_ctx_cache, db, uuid_ok)
       IN /\ auth_pc' = [auth_pc EXCEPT ![c] = call]
          /\ last' = Event("authenticate", IF is_some(call) THEN "Pending" ELSE "Err",
                           c, None, {}, FALSE)
    /\ UNCHANGED << side, acl_doc, cfg_secret, caches, load_pc, conn_state, authed, room,
                    store, edit_pc, del_pc >>

(* The store call of on_authenticate returns; a connection that is still   *)
(* open and was granted Write may join the room.                           *)
AuthenticateDone(c, db) ==
    /\ is_some(auth_pc[c])
    /\ db # "uninit"
    /\ LET perm == on_authenticate_permission(unwrap(auth_pc[c]), store, db)
       IN /\ authed' = IF perm = "Write" /\ conn_state[c] = "open"
                        THEN authed \cup {c} ELSE authed
          /\ last' = Event("authenticate", perm, c, None, {}, FALSE)
    /\ auth_pc' = [auth_pc EXCEPT ![c] = None]
    /\ UNCHANGED << side, acl_doc, cfg_secret, caches, load_pc, conn_state, room, store,
                    edit_pc, del_pc >>

(* ------------------------------------------------------------------ *)
(* on_load_document                                                    *)
(* ------------------------------------------------------------------ *)
DocContext(org, doc_stream_id, doc_version, peer_map, last_updating_peer) ==
    [org |-> org, doc_stream_id |-> doc_stream_id, doc_version |-> doc_version,
     peer_map |-> peer_map, last_updating_peer |-> last_updating_peer]

(* The loop over the rows from row i on: chosen is the row main_stream     *)
(* refers to (0 for None) and highest the value of highest_version.  A row *)
(* is taken when its name is "main", its version exceeds highest_version   *)
(* and its content is not NULL.                                            *)
RECURSIVE select_highest(_, _, _, _)
select_highest(streams, i, chosen, highest) ==
    IF i > Len(streams) THEN chosen
    ELSE IF /\ streams[i].name = "main"
            /\ streams[i].version > highest
            /\ is_some(streams[i].content)
         THEN select_highest(streams, i + 1, i, streams[i].version)
         ELSE select_highest(streams, i + 1, chosen, highest)

(* fetch_doc_snapshot_from_db without a version: highest_version starts    *)
(* at 0                                                                    *)
fetch_select_latest(streams) == select_highest(streams, 1, 0, 0)

(* on_load_document: highest_version starts at -1 *)
load_select(streams) == select_highest(streams, 1, 0, -1)

(* fetch_doc_snapshot_from_db with a version: the loop from row i on       *)
(* breaks at the first "main" row of that version with content (0 when     *)
(* there is none)                                                          *)
RECURSIVE select_version(_, _, _)
select_version(streams, i, v) ==
    IF i > Len(streams) THEN 0
    ELSE IF /\ streams[i].name = "main"
            /\ streams[i].version = v
            /\ is_some(streams[i].content)
         THEN i
         ELSE select_version(streams, i + 1, v)

(* The query of load_colab_doc has no ORDER BY: the ids of the rows in the *)
(* order the iteration meets them, which is row `first` and then the       *)
(* others.                                                                 *)
iteration(streams, first) ==
    LET f == IF first <= Len(streams) THEN first ELSE 1
    IN [i \in 1..Len(streams) |-> IF i = 1 THEN f ELSE IF i <= f THEN i - 1 ELSE i]

(* the rows in the order of the iteration *)
iterated(streams, first) ==
    [i \in 1..Len(streams) |-> streams[iteration(streams, first)[i]]]

(* The id of the stream the loop of on_load_document settles on, None when *)
(* no row passes its tests.                                                *)
main_stream_id(streams, first) ==
    LET k == load_select(iterated(streams, first))
    IN IF k = 0 THEN None ELSE Some(iteration(streams, first)[k])

(* DbColab::load_statement_doc is called by on_load_document; it is taken  *)
(* to select as load_colab_doc does.                                       *)
load_statement_doc(st, org) == load_colab_doc(st, org)

(* DbColab::insert_statement_doc_stream is called by on_load_document; it  *)
(* is taken to insert as insert_doc_stream does.                           *)
insert_statement_doc_stream(st, blob) == insert_doc_stream(st, blob)

(* The DocContext literals of on_load_document set no doc_version; the     *)
(* context is taken to carry the version of the stream it names.           *)
picked_version(stream) == stream.version

(* The connection id the hub reserves for updates of the service itself;  *)
(* no handshake runs for it.                                               *)
SystemConnId == 0

(* on_load_document up to its insert: Ok with the LoadedDoc, Err, or       *)
(* "Insert" when no stream is found and the document has a JSON model,     *)
(* from which the CRDT document is built that the rest of the function     *)
(* inserts.  cbor_ok says whether the conversions (the CBOR codec, the     *)
(* JSON model) succeed.                                                    *)
on_load_document(org_id, st, uuid_ok, db, cbor_ok, first) ==
    LET err == [res |-> "Err", snapshot |-> None, ctx |-> None] IN
    IF ~uuid_ok THEN err
    ELSE IF db # "ok" THEN err
    ELSE LET doc_data == load_statement_doc(st, org_id) IN
    IF ~is_some(doc_data)
    THEN [res |-> "Ok", snapshot |-> None, ctx |-> None]
    ELSE LET main_stream == main_stream_id(unwrap(doc_data).streams, first) IN
    IF ~is_some(main_stream)
    THEN IF ~is_some(unwrap(doc_data).json) THEN err
         ELSE IF ~cbor_ok THEN err
         ELSE [res |-> "Insert", snapshot |-> None, ctx |-> None]
    ELSE IF ~cbor_ok THEN err
    ELSE LET stream == unwrap(doc_data).streams[unwrap(main_stream)]
             colab_package == unwrap(stream.content)
         IN [res |-> "Ok", snapshot |-> Some(colab_package.snapshot),
             ctx |-> Some(DocContext(org_id, unwrap(main_stream), picked_version(stream),
                                     colab_package.peer_map, None))]

(* The rest of on_load_document: the built document is inserted as a new   *)
(* stream row of the store as it is by then, and the context names the new *)
(* row.  synth_peer is the peer id of the built document.                  *)
on_load_document_insert(org_id, st, insert_db, synth_peer) ==
    LET snapshot == [ZeroVV EXCEPT ![synth_peer] = 1]
        peer_map == map_insert(EmptyMap, synth_peer, ServicePrpl)
        st2 == insert_statement_doc_stream(st, [snapshot |-> snapshot, peer_map |-> peer_map])
    IN IF insert_db # "ok"
       THEN [res |-> "Err", snapshot |-> None, ctx |-> None, store |-> st]
       ELSE [res |-> "Ok", snapshot |-> Some(snapshot),
             ctx |-> Some(DocContext(org_id, Len(st2.streams),
                                     picked_version(st2.streams[Len(st2.streams)]), peer_map,
                                     Some(synth_peer))),
             store |-> st2]

(* The hub opens the room with what the load returned: the snapshot is     *)
(* imported into a fresh CRDT handle (whose random peer id is drawn when   *)
(* an edit first uses it) and the returned context becomes the room's; a   *)
(* failed load discards the room.                                          *)
HubOpenRoom(r) ==
    IF r.res = "Ok"
    THEN /\ room_open' = TRUE
         /\ doc_vv' = IF is_some(r.snapshot) THEN unwrap(r.snapshot) ELSE ZeroVV
         /\ doc_peer' = None
         /\ room_ctx' = r.ctx
         /\ dirty' = FALSE
         /\ checkout' = None
    ELSE UNCHANGED << room_open, doc_vv, doc_peer, room_ctx, dirty, checkout >>

(* The hub runs the load of the room for the connection that asks for it   *)
(* (SystemConnId: for an edit of the service).  A load that goes on to its *)
(* insert leaves the room closed until the insert returns.                 *)
HubLoad(c, uuid_ok, db, cbor_ok, first) ==
    LET r == on_load_document(RoomOrg, store, uuid_ok, db, cbor_ok, first) IN
    /\ store' = store
    /\ IF r.res = "Insert"
       THEN /\ load_pc' = Some([conn |-> c])
            /\ UNCHANGED << room_open, doc_vv, doc_peer, room_ctx, dirty, checkout, subs,
                            authed >>
       ELSE /\ load_pc' = None
            /\ HubOpenRoom(r)
            /\ subs' = IF r.res = "Ok" /\ c # SystemConnId THEN subs \cup {c} ELSE subs
            /\ authed' = IF r.res = "Ok" THEN authed ELSE authed \ {c}
    /\ last' = Event("load", r.res, c, None, {}, FALSE)

(* A connection that was granted Write joins the room; the first joiner    *)
(* triggers the load, and a join waits while a load is under way.  The     *)
(* inputs of the load are read only when the load runs.                    *)
JoinRoom(c, uuid_ok, db, cbor_ok, first) ==
    /\ conn_state[c] = "open"
    /\ c \in authed
    /\ c \notin subs
    /\ ~is_some(load_pc)
    /\ IF room_open
       THEN /\ uuid_ok /\ db = "ok" /\ cbor_ok /\ first = 1
            /\ subs' = subs \cup {c}
            /\ last' = Event("join", "Ok", c, None, {}, FALSE)
            /\ UNCHANGED << room_open, doc_vv, doc_peer, room_ctx, dirty, checkout,
                            store, authed, load_pc >>
       ELSE HubLoad(c, uuid_ok, db, cbor_ok, first)
    /\ UNCHANGED << side, acl_doc, cfg_secret, caches, auth_pc, conn_state, edit_pc, del_pc >>

(* The insert of a load returns: the room is opened with the document that *)
(* was built, for the connection if it is still open; a failed insert      *)
(* fails the load, and with it the edit of the service that asked for it.  *)
LoadDocumentInsert(insert_db, synth_peer) ==
    /\ is_some(load_pc)
    /\ Len(store.streams) < MaxStreams
    /\ LET c == unwrap(load_pc).conn
           r == on_load_document_insert(RoomOrg, store, insert_db, synth_peer)
       IN /\ HubOpenRoom(r)
          /\ store' = r.store
          /\ subs' = IF r.res = "Ok" /\ c # SystemConnId /\ conn_state[c] = "open"
                     THEN subs \cup {c} ELSE subs
          /\ authed' = IF r.res = "Ok" THEN authed ELSE authed \ {c}
          /\ edit_pc' = IF r.res # "Ok" /\ c = SystemConnId
                        THEN [edit_pc EXCEPT !.pc = "idle"] ELSE edit_pc
          /\ last' = Event("load", r.res, c, None, {}, FALSE)
    /\ load_pc' = None
    /\ UNCHANGED << side, acl_doc, cfg_secret, caches, auth_pc, conn_state, del_pc >>

(* ------------------------------------------------------------------ *)
(* on_update                                                           *)
(* ------------------------------------------------------------------ *)

(* LoroDoc::import_batch: every peer of the batch advances by one op; a    *)
(* batch that does not decode is refused as a whole and applies nothing    *)
import_batch(vv, updates, import_ok) ==
    IF import_ok
    THEN [p \in Peers |-> IF p \in updates THEN vv[p] + 1 ELSE vv[p]]
    ELSE vv

(* the peers whose counter is greater in the updated version vector *)
increased_peers(init_vv, updated_vv) == {p \in Peers : updated_vv[p] > init_vv[p]}

(* check_peer with the insertion of an unknown peer left out *)
check_peer_no_insert(peer_map, updating_peer_id, conn_ctx) ==
    IF updating_peer_id \in DOMAIN peer_map
    THEN [ok_peer |-> peer_map[updating_peer_id] = user_prpl(conn_ctx.org_id, conn_ctx.uid),
          peer_map |-> peer_map]
    ELSE [ok_peer |-> TRUE, peer_map |-> peer_map]

(* The peer lookup of on_update: an already bound peer is ok only if it    *)
(* is bound to "<org>/u/<uid>" of the connection; an unbound peer is bound *)
(* to that principal.  Yields the verdict and the peer map afterwards.     *)
check_peer(peer_map, updating_peer_id, conn_ctx) ==
    IF updating_peer_id \in DOMAIN peer_map
    THEN [ok_peer |-> peer_map[updating_peer_id] = user_prpl(conn_ctx.org_id, conn_ctx.uid),
          peer_map |-> peer_map]
    ELSE [ok_peer |-> TRUE,
          peer_map |-> map_insert(peer_map, updating_peer_id,
                                  user_prpl(conn_ctx.org_id, conn_ctx.uid))]

(* accepted_ctx with the last updating peer left as it was *)
accepted_ctx_unmarked(doc_ctx, peer_map, updating_peer_id) ==
    [doc_ctx EXCEPT !.peer_map = peer_map]

(* The context on_update returns with status Ok for an advancing batch *)
accepted_ctx(doc_ctx, peer_map, updating_peer_id) ==
    [doc_ctx EXCEPT !.peer_map = peer_map,
                    !.last_updating_peer = Some(updating_peer_id)]

(* rejected_ctx with the last updating peer recorded before the verdict *)
rejected_ctx_marked(doc_ctx, peer_map, updating_peer_id) ==
    [doc_ctx EXCEPT !.peer_map = peer_map,
                    !.last_updating_peer = Some(updating_peer_id)]

(* The context on_update returns with PermissionDenied: the peer map as    *)
(* the lookup left it, last_updating_peer untouched                        *)
rejected_ctx(doc_ctx, peer_map, updating_peer_id) ==
    [doc_ctx EXCEPT !.peer_map = peer_map]

(* on_update(args): args.doc is the document the batch is applied to,      *)
(* args.updates the batch, args.import_ok whether the CRDT can import it,   *)
(* args.pick the peer the iteration over the keys of the updated version   *)
(* vector meets first among the increased ones.                            *)
(* Yields the UpdatedDoc {status, ctx, doc}.                               *)
(* Cache::get: the entry of a key, None for a key without entry *)
cache_get(cache, key) == IF key \in DOMAIN cache THEN cache[key] ELSE None

on_update(args, ccache) ==
    IF args.crdt # "Loro"
    THEN [status |-> "Ok", ctx |-> args.ctx, doc |-> None]
    ELSE IF ~is_some(args.ctx)
    THEN [status |-> "Unknown", ctx |-> None, doc |-> None]
    ELSE LET doc_ctx == unwrap(args.ctx) IN
    IF ~is_some(cache_get(ccache, args.conn_id))
    THEN [status |-> "PermissionDenied", ctx |-> Some(doc_ctx), doc |-> None]
    ELSE LET conn_ctx == unwrap(cache_get(ccache, args.conn_id)) IN
    IF ~is_some(args.doc)
    THEN [status |-> "Unknown", ctx |-> Some(doc_ctx), doc |-> None]
    ELSE LET init_version_vector == unwrap(args.doc)
             updated_version_vector == import_batch(init_version_vector, args.updates,
                                                    args.import_ok)
             increased == increased_peers(init_version_vector, updated_version_vector)
         IN
    IF increased = {}
    THEN [status |-> "Ok", ctx |-> Some(doc_ctx), doc |-> Some(updated_version_vector)]
    ELSE LET updating_peer_id == args.pick
             chk == check_peer(doc_ctx.peer_map, updating_peer_id, conn_ctx)
         IN
    IF ~chk.ok_peer
    THEN [status |-> "PermissionDenied",
          ctx |-> Some(rejected_ctx(doc_ctx, chk.peer_map, updating_peer_id)), doc |-> None]
    ELSE [status |-> "Ok",
          ctx |-> Some(accepted_ctx(doc_ctx, chk.peer_map, updating_peer_id)),
          doc |-> Some(updated_version_vector)]

(* The hub hands a batch of a subscriber to on_update on a working copy of *)
(* the room's document.  On Ok the returned document and context become    *)
(* the room's, the room is dirty and the batch goes to the other           *)
(* subscribers; otherwise the batch is rolled back: the document is kept,  *)
(* nothing is fanned out.                                                  *)
HubUpdate(c, updates, pick, import_ok) ==
    /\ room_open
    /\ c \in subs
    /\ \A p \in updates : doc_vv[p] < MaxCounter
    /\ IF updates = {} THEN pick = 1 ELSE pick \in updates
    /\ ~import_ok => updates # {}
    /\ LET r == on_update([conn_id |-> c, crdt |-> "Loro", ctx |-> room_ctx,
                           doc |-> Some(doc_vv), updates |-> updates, pick |-> pick,
                           import_ok |-> import_ok],
                          conn_ctx_cache)
           peer == IF updates = {} \/ ~import_ok THEN None ELSE Some(pick)
           body == IF import_ok THEN None ELSE Some("import_failed")
       IN /\ room_ctx' = r.ctx
          /\ IF r.status = "Ok"
             THEN /\ doc_vv' = IF is_some(r.doc) THEN unwrap(r.doc) ELSE doc_vv
                  /\ dirty' = TRUE
                  /\ last' = [Event("update", "Ok", c, peer, subs \ {c}, FALSE)
                                 EXCEPT !.body = body]
             ELSE /\ doc_vv' = doc_vv
                  /\ dirty' = dirty
                  /\ last' = [Event("update", r.status, c, peer, {}, FALSE)
                                 EXCEPT !.body = body]
    /\ UNCHANGED << side, acl_doc, cfg_secret, caches, pending, conn_state, authed, room_open, doc_peer,
                    subs, store, edit_pc, del_pc, checkout >>

(* A batch the service submits under the reserved connection id goes       *)
(* through on_update like any other batch.                                 *)
SystemUpdate(updates, pick) ==
    /\ room_open
    /\ updates # {}
    /\ pick \in updates
    /\ \A p \in updates : doc_vv[p] < MaxCounter
    /\ LET r == on_update([conn_id |-> SystemConnId, crdt |-> "Loro", ctx |-> room_ctx,
                           doc |-> Some(doc_vv), updates |-> updates, pick |-> pick,
                           import_ok |-> TRUE],
                          conn_ctx_cache)
       IN /\ room_ctx' = r.ctx
          /\ IF r.status = "Ok"
             THEN /\ doc_vv' = IF is_some(r.doc) THEN unwrap(r.doc) ELSE doc_vv
                  /\ dirty' = TRUE
                  /\ last' = Event("system_update", "Ok", SystemConnId, Some(pick), subs, FALSE)
             ELSE /\ doc_vv' = doc_vv
                  /\ dirty' = dirty
                  /\ last' = Event("system_update", r.status, SystemConnId, Some(pick), {},
                                   FALSE)
    /\ UNCHANGED << side, acl_doc, cfg_secret, caches, pending, conn_state, authed, room_open, doc_peer,
                    subs, store, edit_pc, del_pc, checkout >>

(* ------------------------------------------------------------------ *)
(* on_save_document                                                    *)
(* ------------------------------------------------------------------ *)

(* save_by_prpl attributing a save without updating peer to the service *)
save_by_prpl_default(context) ==
    IF ~is_some(context.last_updating_peer)
    THEN [kind |-> "some", prpl |-> ServicePrpl]
    ELSE IF unwrap(context.last_updating_peer) \notin DOMAIN context.peer_map
    THEN [kind |-> "missing", prpl |-> ""]
    ELSE [kind |-> "some", prpl |-> context.peer_map[unwrap(context.last_updating_peer)]]

(* The principal a save is attributed to: "none" when the context has no  *)
(* last updating peer, "missing" when that peer has no entry in the peer   *)
(* map, else the principal bound to it.                                    *)
save_by_prpl(context) ==
    IF ~is_some(context.last_updating_peer)
    THEN [kind |-> "none", prpl |-> ""]
    ELSE IF unwrap(context.last_updating_peer) \notin DOMAIN context.peer_map
    THEN [kind |-> "missing", prpl |-> ""]
    ELSE [kind |-> "some", prpl |-> context.peer_map[unwrap(context.last_updating_peer)]]

(* save_to_store swallowing the error of the store *)
save_to_store_swallow(st, doc_stream_id, colab_package, db) ==
    IF db # "ok" THEN [res |-> "Ok", store |-> st, wrote |-> FALSE]
    ELSE LET u == update_colab_doc(st, DocType, doc_stream_id, colab_package,
                                   colab_package.snapshot)
         IN [res |-> u.res, store |-> u.store, wrote |-> TRUE]

(* The store part of a save: get_db, then the update of the stream and of  *)
(* the model row; an error of either fails the save.                       *)
save_to_store(st, doc_stream_id, colab_package, db) ==
    IF db = "uninit" THEN [res |-> "Err", store |-> st, wrote |-> FALSE]
    ELSE IF db = "error" THEN [res |-> "Err", store |-> st, wrote |-> TRUE]
    ELSE LET u == update_colab_doc(st, DocType, doc_stream_id, colab_package,
                                   colab_package.snapshot)
         IN [res |-> u.res, store |-> u.store, wrote |-> TRUE]

(* on_save_document(args): args.ctx is the clone of the room's context,    *)
(* args.data the exported snapshot.  Yields the result, the store after    *)
(* it, whether the store's update was called, and the function's local     *)
(* copy of the context when it returns (the copy is dropped).              *)
on_save_document(args, st, cbor_ok, db) ==
    LET out(res, st2, wrote, ctx) ==
            [res |-> res, store |-> st2, wrote |-> wrote, context |-> ctx]
    IN
    IF args.crdt # "Loro" THEN out("Ok", st, FALSE, args.ctx)
    ELSE IF ~is_some(args.ctx) THEN out("Err", st, FALSE, args.ctx)
    ELSE LET context == unwrap(args.ctx)
             by_prpl == save_by_prpl(context)
         IN
    IF by_prpl.kind = "none" THEN out("Ok", st, FALSE, args.ctx)
    ELSE IF by_prpl.kind = "missing" THEN out("Err", st, FALSE, args.ctx)
    ELSE LET colab_package == [snapshot |-> args.data, peer_map |-> context.peer_map] IN
    IF ~cbor_ok THEN out("Err", st, FALSE, args.ctx)
    ELSE LET w == save_to_store(st, context.doc_stream_id, colab_package, db) IN
    IF w.res # "Ok" THEN out("Err", w.store, w.wrote, args.ctx)
    ELSE out("Ok", w.store, w.wrote, Some([context EXCEPT !.last_updating_peer = None]))

(* What the hub does with the result of a save: a successful save clears   *)
(* dirty; the room's context is the one the hub holds (on_save_document    *)
(* got a clone and returns no context).                                    *)
HubSave(r) ==
    /\ store' = r.store
    /\ dirty' = IF r.res = "Ok" THEN FALSE ELSE dirty

(* The save ticker: every dirty room is saved. *)
SaveTick(cbor_ok, db) ==
    /\ room_open
    /\ dirty
    /\ LET r == on_save_document([crdt |-> "Loro", data |-> doc_vv, ctx |-> room_ctx],
                                 store, cbor_ok, db)
       IN /\ HubSave(r)
          /\ last' = Event("save", r.res, 0,
                           IF is_some(room_ctx) THEN unwrap(room_ctx).last_updating_peer
                           ELSE None, {}, r.wrote)
    /\ UNCHANGED << side, acl_doc, cfg_secret, caches, pending, conn_state, authed, room_open, doc_vv,
                    doc_peer, room_ctx, subs, edit_pc, del_pc, checkout >>

(* ------------------------------------------------------------------ *)
(* close_room, on_close_connection                                     *)
(* ------------------------------------------------------------------ *)

(* close_room(force): if forced or without subscribers the room's          *)
(* subscribers are told the room is closed, the room is saved if dirty and *)
(* then evicted, whatever the save returned.                               *)
HubCloseRoom(force, cbor_ok, db) ==
    IF room_open /\ (force \/ subs = {})
    THEN LET r == IF dirty
                  THEN on_save_document([crdt |-> "Loro", data |-> doc_vv, ctx |-> room_ctx],
                                        store, cbor_ok, db)
                  ELSE [res |-> "Ok", store |-> store, wrote |-> FALSE, context |-> room_ctx]
         IN /\ store' = r.store
            /\ dirty' = FALSE
            /\ subs' = {}
            /\ authed' = authed \ subs
            /\ room_open' = FALSE
            /\ UNCHANGED << doc_vv, doc_peer, room_ctx, checkout >>
    ELSE UNCHANGED << room, authed, store >>

(* on_close_connection removes the connection's context; the hub removes   *)
(* the connection from the rooms it subscribed to.                         *)
on_close_connection(conn_id, ccache) == [ccache EXCEPT ![conn_id] = None]

CloseConnection(c) ==
    /\ conn_state[c] = "open"
    /\ conn_ctx_cache' = on_close_connection(c, conn_ctx_cache)
    /\ conn_state' = [conn_state EXCEPT ![c] = "closed"]
    /\ subs' = subs \ {c}
    /\ authed' = authed \ {c}
    /\ last' = Event("close_connection", "Ok", c, None, {}, FALSE)
    /\ UNCHANGED << side, pending, acl_doc, cfg_secret, user_ctx_cache, room_open, doc_vv,
                    doc_peer, room_ctx, dirty, store, edit_pc, del_pc, checkout >>

(* The identity cache drops an entry that was not read or written for the *)
(* time_to_idle of the cache.                                              *)
EvictUserCtx(uid) ==
    /\ is_some(user_ctx_cache[uid])
    /\ user_ctx_cache' = [user_ctx_cache EXCEPT ![uid] = None]
    /\ last' = Event("evict_user_ctx", "Ok", 0, None, {}, FALSE)
    /\ UNCHANGED << side, pending, acl_doc, cfg_secret, conn_ctx_cache, conn_state, authed,
                    room, store, edit_pc, del_pc >>

(* The connection registry drops an entry in the same way: the context of  *)
(* a connection that is still open is gone.                                *)
EvictConnCtx(c) ==
    /\ is_some(conn_ctx_cache[c])
    /\ conn_ctx_cache' = [conn_ctx_cache EXCEPT ![c] = None]
    /\ last' = Event("evict_conn_ctx", "Ok", c, None, {}, FALSE)
    /\ UNCHANGED << side, pending, acl_doc, cfg_secret, user_ctx_cache, conn_state, authed,
                    room, store, edit_pc, del_pc >>

(* A room left without subscribers is closed after the grace period. *)
RoomTeardown(cbor_ok, db) ==
    /\ room_open
    /\ subs = {}
    /\ edit_pc.pc = "idle"
    /\ HubCloseRoom(FALSE, cbor_ok, db)
    /\ last' = Event("teardown", "Ok", 0, None, {}, store' # store)
    /\ UNCHANGED << side, acl_doc, cfg_secret, caches, pending, conn_state, edit_pc, del_pc >>

(* ------------------------------------------------------------------ *)
(* edit_doc                                                            *)
(* ------------------------------------------------------------------ *)

(* The annotation of edit_doc: the peer the edit ran under is bound to the *)
(* service principal in the room's context, if the room has one.           *)
annotate_peer(ctx, peer_id) ==
    IF is_some(ctx)
    THEN Some([unwrap(ctx) EXCEPT !.peer_map = map_insert(@, peer_id, ServicePrpl)])
    ELSE ctx

(* move_colab_doc_to_lib: the document row is assigned to the library, in  *)
(* a transaction of its own                                                *)
move_colab_doc_to_lib(cur, lib_id) == lib_id

(* ------------------------------------------------------------------ *)
(* doc_move_lib: the walk that clears the ACL containers               *)
(* ------------------------------------------------------------------ *)

(* sequences over S of length at most n *)
SeqUpTo(S, n) == UNION { [1..k -> S] : k \in 0..n }

(* An ACL container is TRUE when it holds entries.  A statement map has,   *)
(* each present or not (None: the key is missing or is not a map): its     *)
(* acls, its properties (Some(TRUE) when they hold a string contentType)   *)
(* and its content, the acls of each of its languages.                     *)
AclStatements ==
    [acls : {None, Some(FALSE), Some(TRUE)},
     properties : {None, Some(FALSE), Some(TRUE)},
     content : {None} \cup { Some(l) : l \in SeqUpTo(BOOLEAN, MaxLangs) }]
(* A row is a map or another value; a row map has a type (a string or      *)
(* none) and may have a statement (ColabSheetStatementGridRow.statement is *)
(* an Option).                                                             *)
AclRows ==
    [map : {TRUE}, type : {None, Some("local"), Some("reference")},
     statement : {None} \cup { Some(st) : st \in AclStatements }]
    \cup [map : {FALSE}, type : {None}, statement : {None}]
BlockTypes == {"text", "statement-grid"}
AclBlocks ==
    [type : {Some("statement-grid")}, acls : BOOLEAN,
     rows : {None} \cup { Some(r) : r \in SeqUpTo(AclRows, MaxRows) }]
    \cup [type : {None, Some("text"), Some("chart")}, acls : BOOLEAN, rows : {None}]
AclDocs ==
    [type : {Some("colab-statement")}, acls : BOOLEAN,
     langs : SeqUpTo(BOOLEAN, MaxLangs), blocks : {<< >>}]
    \cup [type : {Some("colab-sheet")}, acls : BOOLEAN, langs : {<< >>},
          blocks : SeqUpTo(AclBlocks, MaxBlocks)]
    \cup [type : {None, Some("other")}, acls : BOOLEAN, langs : {<< >>}, blocks : {<< >>}]

(* the acls of every language are cleared *)
clear_lang_acls(langs) == [i \in DOMAIN langs |-> FALSE]

(* reset_acls_statement_doc: the root acls and the acls of each language *)
reset_acls_statement_doc(doc) ==
    [res |-> "Ok", doc |-> [doc EXCEPT !.acls = FALSE, !.langs = clear_lang_acls(@)]]

(* reset_acls_statement: fails with the statement unchanged when its acls, *)
(* its properties or its contentType are missing; then clears the acls and *)
(* fails when the content is missing; else clears the acls of each language *)
reset_acls_statement(map) ==
    IF ~is_some(map.acls) THEN [res |-> "Err", statement |-> map]
    ELSE IF ~is_some(map.properties) THEN [res |-> "Err", statement |-> map]
    ELSE IF ~unwrap(map.properties) THEN [res |-> "Err", statement |-> map]
    ELSE LET cleared == [map EXCEPT !.acls = Some(FALSE)]
         IN IF ~is_some(map.content) THEN [res |-> "Err", statement |-> cleared]
            ELSE [res |-> "Ok",
                  statement |-> [cleared EXCEPT
                                   !.content = Some(clear_lang_acls(unwrap(@)))]]

(* the rows of a statement-grid from index r on: a row that is not a map   *)
(* or has no type fails, rows that are not local are skipped, a local row  *)
(* without statement fails, the first failure ends the walk and the rows   *)
(* cleared before it stay cleared                                          *)
RECURSIVE reset_rows(_, _)
reset_rows(rows, r) ==
    IF r > Len(rows) THEN [res |-> "Ok", rows |-> rows]
    ELSE IF ~rows[r].map THEN [res |-> "Err", rows |-> rows]
    ELSE IF ~is_some(rows[r].type) THEN [res |-> "Err", rows |-> rows]
    ELSE IF unwrap(rows[r].type) # "local" THEN reset_rows(rows, r + 1)
    ELSE IF ~is_some(rows[r].statement) THEN [res |-> "Err", rows |-> rows]
    ELSE LET st == reset_acls_statement(unwrap(rows[r].statement))
             rows1 == [rows EXCEPT ![r].statement = Some(st.statement)]
         IN IF st.res = "Ok" THEN reset_rows(rows1, r + 1)
            ELSE [res |-> "Err", rows |-> rows1]

(* one block of a sheet: its acls are cleared, its type must be present,   *)
(* and only a statement-grid is descended into                             *)
reset_block(block) ==
    LET b1 == [block EXCEPT !.acls = FALSE]
    IN IF ~is_some(block.type) THEN [res |-> "Err", block |-> b1]
       ELSE IF unwrap(block.type) = "statement-grid"
       THEN IF ~is_some(block.rows) THEN [res |-> "Err", block |-> b1]
            ELSE LET rr == reset_rows(unwrap(block.rows), 1)
                 IN [res |-> rr.res, block |-> [b1 EXCEPT !.rows = Some(rr.rows)]]
       ELSE [res |-> "Ok", block |-> b1]

RECURSIVE reset_blocks(_, _)
reset_blocks(blocks, i) ==
    IF i > Len(blocks) THEN [res |-> "Ok", blocks |-> blocks]
    ELSE LET b == reset_block(blocks[i])
             blocks1 == [blocks EXCEPT ![i] = b.block]
         IN IF b.res = "Ok" THEN reset_blocks(blocks1, i + 1)
            ELSE [res |-> "Err", blocks |-> blocks1]

(* reset_acls_sheet_doc: the root acls, then the blocks in order *)
reset_acls_sheet_doc(doc) ==
    LET bb == reset_blocks(doc.blocks, 1)
    IN [res |-> bb.res, doc |-> [doc EXCEPT !.acls = FALSE, !.blocks = bb.blocks]]

(* the callback doc_move_lib hands to edit_doc *)
reset_acls_callback(doc) ==
    IF ~is_some(doc.type) THEN [res |-> "Err", doc |-> doc]
    ELSE IF unwrap(doc.type) = "colab-statement" THEN reset_acls_statement_doc(doc)
    ELSE IF unwrap(doc.type) = "colab-sheet" THEN reset_acls_sheet_doc(doc)
    ELSE [res |-> "Err", doc |-> doc]

(* the callback runs on the document of the room *)
ResetAcls ==
    /\ LET r == reset_acls_callback(acl_doc)
       IN /\ acl_doc' = r.doc
          /\ last' = Response("reset_acls", << >>, r.res, Some(acl_doc))
    /\ UNCHANGED << side, cfg_secret, caches, pending, conn_state, authed, room, store, edit_pc, del_pc >>

(* ------------------------------------------------------------------ *)
(* doc_delete                                                          *)
(* ------------------------------------------------------------------ *)

(* delete_colab_doc marks the document row deleted *)
delete_colab_doc(st) == [st EXCEPT !.deleted = TRUE]

(* doc_delete up to the store call: the caller must be the app service or  *)
(* a cloud admin, and the document id of the path must parse as a UUID     *)
(* (400, before any store call); a failing store call answers 500 and      *)
(* closes nothing.                                                         *)
DeleteMark(d, prpls, uuid_ok, db) ==
    /\ del_pc[d] = "idle"
    \* the inputs a branch does not read are fixed
    /\ is_some(ensure_service(prpls, AppService)) \/ uuid_ok
    /\ (is_some(ensure_service(prpls, AppService)) /\ uuid_ok) \/ db = "ok"
    /\ IF ~is_some(ensure_service(prpls, AppService))
       THEN /\ UNCHANGED << store, del_pc >>
            /\ last' = Response("delete", prpls, "Forbidden", None)
       ELSE IF ~uuid_ok
       THEN /\ UNCHANGED << store, del_pc >>
            /\ last' = Response("delete", prpls, "BadRequest", None)
       ELSE IF db = "ok"
       THEN /\ store' = delete_colab_doc(store)
            /\ del_pc' = [del_pc EXCEPT ![d] = "marked"]
            /\ last' = [Event("delete", "Ok", d, None, {}, TRUE) EXCEPT !.caller = prpls]
       ELSE /\ UNCHANGED << store, del_pc >>
            /\ last' = [Event("delete", "Err", d, None, {}, FALSE) EXCEPT !.caller = prpls]
    /\ UNCHANGED << side, acl_doc, cfg_secret, caches, pending, conn_state, authed, room, edit_pc >>

(* a close that is not forced: a room with subscribers stays *)
DeleteCloseUnforced(d, cbor_ok, db) ==
    /\ del_pc[d] = "marked"
    /\ HubCloseRoom(FALSE, cbor_ok, db)
    /\ del_pc' = [del_pc EXCEPT ![d] = "done"]
    /\ last' = Event("delete_close", "Ok", d, None, {}, store' # store)
    /\ UNCHANGED << side, acl_doc, cfg_secret, caches, pending, conn_state, edit_pc >>

(* doc_delete's close_room(force = true), after which it answers 200 *)
DeleteClose(d, cbor_ok, db) ==
    /\ del_pc[d] = "marked"
    /\ HubCloseRoom(TRUE, cbor_ok, db)
    /\ del_pc' = [del_pc EXCEPT ![d] = "done"]
    /\ last' = Event("delete_close", "Ok", d, None, {}, store' # store)
    /\ UNCHANGED << side, acl_doc, cfg_secret, caches, pending, conn_state, edit_pc >>

(* ------------------------------------------------------------------ *)
(* Export endpoints: doc_latest, doc_version, diagnostics              *)
(* ------------------------------------------------------------------ *)

(* The id of the stream fetch_doc_snapshot_from_db settles on.  With a     *)
(* version, the first "main" row with content the iteration meets whose    *)
(* version equals it; without one, the "main" row with content of the      *)
(* highest version above 0.                                                *)
fetch_stream_id(streams, version, first) ==
    LET k == IF is_some(version)
             THEN select_version(iterated(streams, first), 1, unwrap(version))
             ELSE fetch_select_latest(iterated(streams, first))
    IN IF k = 0 THEN None ELSE Some(iteration(streams, first)[k])

(* stream_version, the doc_version fetch_doc_snapshot_from_db puts in the  *)
(* context: the requested version, else highest_version after the loop     *)
fetch_stream_version(streams, version) ==
    IF is_some(version) THEN unwrap(version)
    ELSE LET k == fetch_select_latest(streams)
         IN IF k = 0 THEN 0 ELSE streams[k].version

(* fetch_doc_snapshot_from_db(org_id, doc_id, version) up to its insert:   *)
(* Ok(Some(snapshot, ctx)) is "Ok", Ok(None) is "NotFound"; "Insert" when  *)
(* no stream is found and the document has a JSON model, from which the    *)
(* CRDT document is built that the rest of the function inserts.  The      *)
(* handlers call it with a document id they parsed as a UUID before.       *)
fetch_doc_snapshot_from_db(org_id, st, version, db, cbor_ok, first) ==
    LET out(res) == [res |-> res, snapshot |-> ZeroVV, ctx |-> None] IN
    IF db # "ok" THEN out("Err")
    ELSE LET doc_data == load_colab_doc(st, org_id) IN
    IF ~is_some(doc_data) THEN out("NotFound")
    ELSE LET main_stream == fetch_stream_id(unwrap(doc_data).streams, version, first)
             stream_version == fetch_stream_version(unwrap(doc_data).streams, version)
         IN
    IF ~is_some(main_stream)
    THEN IF ~is_some(unwrap(doc_data).json) THEN out("Err")
         ELSE IF ~cbor_ok THEN out("Err")
         ELSE out("Insert")
    ELSE IF ~cbor_ok THEN out("Err")
    ELSE LET colab_package == unwrap(unwrap(doc_data).streams[unwrap(main_stream)].content)
         IN [res |-> "Ok", snapshot |-> colab_package.snapshot,
             ctx |-> Some(DocContext(org_id, unwrap(main_stream), stream_version,
                                     colab_package.peer_map, None))]

(* The rest of fetch_doc_snapshot_from_db: the built document is inserted  *)
(* as a new stream row of the store as it is by then; the context names    *)
(* the new row and carries the stream_version computed before, which is    *)
(* the requested version, or 0 when none was requested.                    *)
fetch_doc_snapshot_insert(org_id, st, version, insert_db, synth_peer) ==
    LET snapshot == [ZeroVV EXCEPT ![synth_peer] = 1]
        peer_map == map_insert(EmptyMap, synth_peer, ServicePrpl)
        st2 == insert_doc_stream(st, [snapshot |-> snapshot, peer_map |-> peer_map])
    IN IF insert_db # "ok"
       THEN [res |-> "Err", snapshot |-> ZeroVV, ctx |-> None, store |-> st]
       ELSE [res |-> "Ok", snapshot |-> snapshot,
             ctx |-> Some(DocContext(org_id, Len(st2.streams),
                                     fetch_stream_version(<< >>, version), peer_map,
                                     Some(synth_peer))),
             store |-> st2]

(* the version vectors a version request may name: none, the empty        *)
(* document, one operation of the first peer, and the greatest of the     *)
(* bounds                                                                  *)
VersionVectors ==
    {None, Some(ZeroVV), Some([ZeroVV EXCEPT ![1] = 1]), Some([p \in Peers |-> MaxCounter])}

(* the version the state of the room's CRDT handle is at *)
state_vv == IF is_some(checkout) THEN unwrap(checkout) ELSE doc_vv

(* vv_to_frontiers and checkout succeed for a version vector inside the    *)
(* history of the document                                                 *)
vv_in_history(vv, oplog_vv) == \A p \in Peers : vv[p] <= oplog_vv[p]

(* LoroDoc::checkout on a handle whose state is at `state` : a no-op when  *)
(* the frontier is the one the state is at, else the handle is detached at *)
(* the frontier.  Yields the value of checkout afterwards.                 *)
loro_checkout(cur, state, frontiers) ==
    IF frontiers = state THEN cur ELSE Some(frontiers)

(* the body of a latest/version response, and the stream row a fetch took  *)
(* it from                                                                 *)
ExportBody(version, vv, peer_map, stream) ==
    [version |-> version, vv |-> vv, peer_map |-> peer_map, stream |-> stream]

(* the room's document and context, as the handlers read them under the    *)
(* hub lock: Some when the room is open and has both                       *)
room_doc_state == IF room_open /\ is_some(room_ctx) THEN room_ctx ELSE None

(* Whether the handler still holds the guard of registry.hubs() when it    *)
(* awaits fetch_doc_snapshot_from_db.  doc_latest (no version) takes the   *)
(* guard inside the block that computes mem_data; doc_version binds it in  *)
(* the body of the function.                                               *)
holds_hubs_lock(version) == is_some(version)

(* some request holds the guard of registry.hubs() *)
hubs_locked == \E l \in Loaders : /\ ld[l].pc # "idle"
                                  /\ holds_hubs_lock(ld[l].version)

(* the answer to a request: l is 0 for an answer given before the fetch *)
ExportAnswer(op, l, prpls, status, body) ==
    [Response(op, prpls, status, body) EXCEPT !.conn = l]

(* POST .../version up to the release of the hub's guard (line 99): the    *)
(* room's document if the room is open at that version (LoroDoc::clone     *)
(* shares the handle) and a copy of the peer map of its context;           *)
(* otherwise the handler goes on to fetch_doc_snapshot_from_db.  Either    *)
(* way the guard of registry.hubs() stays held to the end of the handler.  *)
Version(l, prpls, format_ok, uuid_ok, version) ==
    /\ ld[l].pc = "idle"
    /\ \A k \in Loaders : k < l => ld[k].pc # "idle"
    /\ LET from_room == is_some(room_doc_state)
                        /\ unwrap(room_doc_state).doc_version = version
           req == ExportBody(version, ZeroVV, EmptyMap, None)
           admitted == format_ok /\ is_some(ensure_service(prpls, AppService)) /\ uuid_ok
       IN
       /\ admitted => ~hubs_locked
       \* the inputs a branch does not read are fixed
       /\ (format_ok /\ is_some(ensure_service(prpls, AppService))) \/ uuid_ok
       /\ admitted \/ version = 0
       /\ IF ~format_ok
          THEN /\ last' = ExportAnswer("version", 0, prpls, "BadRequest", req)
               /\ UNCHANGED ld
          ELSE IF ~is_some(ensure_service(prpls, AppService))
          THEN /\ last' = ExportAnswer("version", 0, prpls, "Forbidden", req)
               /\ UNCHANGED ld
          ELSE IF ~uuid_ok
          THEN /\ last' = ExportAnswer("version", 0, prpls, "BadRequest", req)
               /\ UNCHANGED ld
          ELSE IF from_room
          THEN /\ ld' = [ld EXCEPT ![l] = [NoLoad EXCEPT
                                             !.pc = "room",
                                             !.version = Some(version),
                                             !.peer_map = unwrap(room_doc_state).peer_map]]
               /\ last' = ExportAnswer("version", l, prpls, "Room", req)
          ELSE /\ ld' = [ld EXCEPT ![l] = [NoLoad EXCEPT !.pc = "read",
                                                         !.version = Some(version)]]
               /\ last' = ExportAnswer("version", l, prpls, "Fetch", req)
    /\ UNCHANGED << identity_cache, lk, txt, sock, sel, lib, acl_doc, cfg_secret, caches,
                    pending, conn_state, authed, room, store, edit_pc, del_pc >>

(* doc_version on the room's handle, lines 157-180: the frontier of the    *)
(* request's version vector, which is read here first, or without one the  *)
(* frontier the state of the handle is at by now.  No guard of the hub is  *)
(* held: the hub goes on applying updates to the same handle.  A version   *)
(* vector outside the history of the document answers 500.                 *)
VersionFrontiers(l, version_v) ==
    /\ ld[l].pc = "room"
    /\ LET frontiers == IF is_some(version_v) THEN unwrap(version_v) ELSE state_vv
           req == ExportBody(unwrap(ld[l].version), ZeroVV, EmptyMap, None)
       IN IF ~vv_in_history(frontiers, doc_vv)
          THEN /\ ld' = [ld EXCEPT ![l] = NoLoad]
               /\ last' = ExportAnswer("version_frontiers", l, << >>, "Err", req)
          ELSE /\ ld' = [ld EXCEPT ![l].pc = "frontiers",
                                   ![l].version_v = version_v,
                                   ![l].frontiers = frontiers]
               /\ last' = ExportAnswer("version_frontiers", l, << >>, "Ok", req)
    /\ UNCHANGED << identity_cache, lk, txt, sock, sel, lib, acl_doc, cfg_secret, caches,
                    pending, conn_state, authed, room, store, edit_pc, del_pc >>

(* doc_version on the room's handle, lines 183-194: the handle is checked  *)
(* out at the frontier computed before; a checkout that fails (checkout_ok *)
(* is false) leaves the handle as it is and the request is answered 500.   *)
VersionCheckout(l, checkout_ok) ==
    /\ ld[l].pc = "frontiers"
    /\ IF checkout_ok
       THEN /\ checkout' = loro_checkout(checkout, state_vv, ld[l].frontiers)
            /\ ld' = [ld EXCEPT ![l].pc = "checked"]
            /\ last' = ExportAnswer("version_checkout", l, << >>, "Ok",
                                    ExportBody(unwrap(ld[l].version), ld[l].frontiers,
                                               EmptyMap, None))
       ELSE /\ checkout' = checkout
            /\ ld' = [ld EXCEPT ![l] = NoLoad]
            /\ last' = ExportAnswer("version_checkout", l, << >>, "Err",
                                    ExportBody(unwrap(ld[l].version), ZeroVV, EmptyMap,
                                               None))
    /\ UNCHANGED << identity_cache, lk, txt, sock, sel, lib, acl_doc, cfg_secret, caches,
                    pending, conn_state, authed, room_open, doc_vv, doc_peer, room_ctx, subs,
                    dirty, store, edit_pc, del_pc >>

(* doc_version on the room's handle, lines 197-265: the export, and the    *)
(* answer with the request's version vector, or without one with the       *)
(* version vector the state of the handle is at by now, and with the peer  *)
(* map copied under the hub's guard.  export_ok says whether the           *)
(* serialisation of the answer succeeds.                                   *)
VersionAnswer(l, export_ok) ==
    /\ ld[l].pc = "checked"
    /\ ld' = [ld EXCEPT ![l] = NoLoad]
    /\ last' = ExportAnswer("version_answer", l, << >>,
                            IF export_ok THEN "Ok" ELSE "Err",
                            ExportBody(unwrap(ld[l].version),
                                       IF is_some(ld[l].version_v)
                                       THEN unwrap(ld[l].version_v) ELSE state_vv,
                                       ld[l].peer_map, None))
    /\ UNCHANGED << identity_cache, lk, txt, sock, sel, lib, acl_doc, cfg_secret, caches,
                    pending, conn_state, authed, room, store, edit_pc, del_pc >>

(* GET latest up to the fetch: the state of the room's document if the     *)
(* room is open; otherwise the handler releases the guard of               *)
(* registry.hubs() and goes on to fetch_doc_snapshot_from_db.              *)
Latest(l, prpls, format_ok, uuid_ok, export_ok) ==
    /\ ld[l].pc = "idle"
    /\ \A k \in Loaders : k < l => ld[k].pc # "idle"
    /\ LET from_room == is_some(room_doc_state)
           req == ExportBody(0, ZeroVV, EmptyMap, None)
           admitted == format_ok /\ is_some(ensure_service(prpls, AppService)) /\ uuid_ok
       IN
       /\ admitted => ~hubs_locked
       \* the inputs a branch does not read are fixed
       /\ (admitted /\ from_room) \/ export_ok
       /\ (format_ok /\ is_some(ensure_service(prpls, AppService))) \/ uuid_ok
       /\ IF ~format_ok
          THEN /\ last' = ExportAnswer("latest", 0, prpls, "BadRequest", req)
               /\ UNCHANGED ld
          ELSE IF ~is_some(ensure_service(prpls, AppService))
          THEN /\ last' = ExportAnswer("latest", 0, prpls, "Forbidden", req)
               /\ UNCHANGED ld
          ELSE IF ~uuid_ok
          THEN /\ last' = ExportAnswer("latest", 0, prpls, "BadRequest", req)
               /\ UNCHANGED ld
          ELSE IF from_room
          THEN /\ last' = ExportAnswer("latest", 0, prpls,
                             IF export_ok THEN "Ok" ELSE "Err",
                             ExportBody(unwrap(room_doc_state).doc_version, state_vv,
                                        unwrap(room_doc_state).peer_map, None))
               /\ UNCHANGED ld
          ELSE /\ ld' = [ld EXCEPT ![l] = [NoLoad EXCEPT !.pc = "read"]]
               /\ last' = ExportAnswer("latest", l, prpls, "Fetch", req)
    /\ UNCHANGED << identity_cache, lk, txt, sock, sel, lib, acl_doc, cfg_secret, caches,
                    pending, conn_state, authed, room, store, edit_pc, del_pc >>

(* What the handler answers with the snapshot and the context of a fetch:  *)
(* the snapshot is imported into a new CRDT document; doc_latest answers   *)
(* its state, doc_version checks it out at version_v, or at its state's    *)
(* frontier without one.                                                   *)
fetch_answer(version, f, version_v, export_ok) ==
    LET ctx == unwrap(f.ctx)
        stream == Some(ctx.doc_stream_id)
    IN IF ~export_ok
       THEN [status |-> "Err", body |-> ExportBody(0, ZeroVV, EmptyMap, stream)]
       ELSE IF ~is_some(version)
       THEN [status |-> "Ok",
             body |-> ExportBody(ctx.doc_version, f.snapshot, ctx.peer_map, stream)]
       ELSE LET frontiers == IF is_some(version_v) THEN unwrap(version_v) ELSE f.snapshot
            IN IF ~vv_in_history(frontiers, f.snapshot)
               THEN [status |-> "Err",
                     body |-> ExportBody(unwrap(version), ZeroVV, EmptyMap, stream)]
               ELSE [status |-> "Ok",
                     body |-> ExportBody(unwrap(version), frontiers, ctx.peer_map, stream)]

(* fetch_doc_snapshot_from_db up to its choice between the stored stream   *)
(* and the synthesis: load_colab_doc returns the rows of the document, and *)
(* the handler answers unless the fetch goes on to its insert.             *)
LoadRead(l, db, cbor_ok, first, version_v, export_ok) ==
    /\ ld[l].pc = "read"
    /\ LET f == fetch_doc_snapshot_from_db(RoomOrg, store, ld[l].version, db, cbor_ok, first)
           req == ExportBody(0, ZeroVV, EmptyMap, None)
       IN /\ f.res = "Ok" \/ (version_v = None /\ export_ok)
          /\ is_some(ld[l].version) \/ version_v = None
          /\ IF f.res = "Insert"
             THEN /\ ld' = [ld EXCEPT ![l].pc = "insert"]
                  /\ last' = ExportAnswer("load_read", l, << >>, "Insert", req)
             ELSE IF f.res # "Ok"
             THEN /\ ld' = [ld EXCEPT ![l] = NoLoad]
                  /\ last' = ExportAnswer("load_read", l, << >>, f.res, req)
             ELSE LET a == fetch_answer(ld[l].version, f, version_v, export_ok)
                  IN /\ ld' = [ld EXCEPT ![l] = NoLoad]
                     /\ last' = ExportAnswer("load_read", l, << >>, a.status, a.body)
    /\ UNCHANGED << service, identity_cache, lk, txt, sock, sel, lib >>

(* The synthesis branch: the document built from the JSON model is         *)
(* inserted as a new stream row, whose id the context gets, and the        *)
(* handler answers.                                                        *)
LoadInsert(l, insert_db, synth_peer, version_v, export_ok) ==
    /\ ld[l].pc = "insert"
    /\ Len(store.streams) < MaxStreams
    /\ LET f == fetch_doc_snapshot_insert(RoomOrg, store, ld[l].version, insert_db,
                                          synth_peer)
           req == ExportBody(0, ZeroVV, EmptyMap, None)
       IN /\ f.res = "Ok" \/ (version_v = None /\ export_ok)
          /\ is_some(ld[l].version) \/ version_v = None
          /\ store' = f.store
          /\ ld' = [ld EXCEPT ![l] = NoLoad]
          /\ IF f.res # "Ok"
             THEN last' = ExportAnswer("load_insert", l, << >>, "Err", req)
             ELSE LET a == fetch_answer(ld[l].version, f, version_v, export_ok)
                  IN last' = ExportAnswer("load_insert", l, << >>, a.status, a.body)
    /\ UNCHANGED << cfg_secret, caches, pending, conn_state, authed, room, edit_pc, del_pc,
                    acl_doc, identity_cache, lk, txt, sock, sel, lib >>

(* GET diagnostics: the number of rooms and of dirty documents, counted    *)
(* under the guard of registry.hubs()                                      *)
Diagnostics(prpls) ==
    /\ is_some(ensure_cloud_admin(prpls)) => ~hubs_locked
    /\ IF ~is_some(ensure_cloud_admin(prpls))
       THEN last' = Response("diagnostics", prpls, "Forbidden",
                             ExportBody(0, ZeroVV, EmptyMap, None))
       ELSE last' = Response("diagnostics", prpls, "Ok",
                             ExportBody(IF room_open THEN 1 ELSE 0, ZeroVV, EmptyMap, None))
    /\ UNCHANGED << side, acl_doc, cfg_secret, caches, pending, conn_state, authed, room, store,
                    edit_pc, del_pc >>

(* ------------------------------------------------------------------ *)
(* doc_move_lib and edit_doc                                           *)
(* ------------------------------------------------------------------ *)

(* the documents whose room a move-to-library request edits *)
EditAclDocs ==
    { NoAclDoc,
      [type |-> Some("colab-statement"), acls |-> TRUE, langs |-> << TRUE >>,
       blocks |-> << >>],
      [type |-> Some("other"), acls |-> TRUE, langs |-> << >>, blocks |-> << >>],
      [type |-> Some("colab-sheet"), acls |-> TRUE, langs |-> << >>,
       blocks |-> << [type |-> None, acls |-> TRUE, rows |-> None] >>] }

(* the document of a room opened for a document the load did not find *)
EmptyAclDoc == [type |-> None, acls |-> FALSE, langs |-> << >>, blocks |-> << >>]

(* doc_move_lib up to edit_doc: the caller must be the app service or a    *)
(* cloud admin, the ids of the document and of the library must be UUIDs,  *)
(* and the document is reparented in the store, whatever the state of its  *)
(* room.  edit_pc.lib keeps the library the document was in before.        *)
EditMove(prpls, uuid_ok, lib_id, move_db) ==
    /\ edit_pc.pc = "idle"
    /\ edit_pc.edits < MaxEdits
    /\ IF ~is_some(ensure_service(prpls, AppService))
       THEN /\ UNCHANGED << edit_pc, lib >>
            /\ last' = Response("move_lib", prpls, "Forbidden", None)
       ELSE IF ~uuid_ok
       THEN /\ UNCHANGED << edit_pc, lib >>
            /\ last' = Response("move_lib", prpls, "BadRequest", None)
       ELSE IF move_db # "ok"
       THEN /\ UNCHANGED << edit_pc, lib >>
            /\ last' = Response("move_lib", prpls, "Err", None)
       ELSE /\ lib' = move_colab_doc_to_lib(lib, lib_id)
            /\ edit_pc' = [edit_pc EXCEPT !.pc = "moved", !.edits = @ + 1, !.lib = lib]
            /\ last' = Response("move_lib", prpls, "Moved", None)
    /\ UNCHANGED << identity_cache, lk, txt, sock, sel, ld, acl_doc, cfg_secret, caches,
                    pending, conn_state, authed, room, store, del_pc >>

(* registry.edit_loro_doc on a document whose room is not open: the hub    *)
(* opens the room with a load, without a subscriber; a failed load fails   *)
(* the edit.                                                               *)
EditOpen(db, cbor_ok, first) ==
    /\ edit_pc.pc = "moved"
    /\ ~room_open
    /\ ~is_some(load_pc)
    /\ HubLoad(SystemConnId, TRUE, db, cbor_ok, first)
    /\ edit_pc' = IF on_load_document(RoomOrg, store, TRUE, db, cbor_ok, first).res = "Err"
                  THEN [edit_pc EXCEPT !.pc = "idle"] ELSE edit_pc
    /\ UNCHANGED << side, acl_doc, cfg_secret, caches, auth_pc, conn_state, del_pc >>

(* registry.edit_loro_doc on the open room: the callback of doc_move_lib   *)
(* walks the room's document and its changes are committed under the peer  *)
(* id of the room's CRDT handle, which is returned.  A detached handle     *)
(* refuses the callback's writes; a callback that fails returns before its *)
(* commit, with what it cleared so far, and edit_doc returns the error.    *)
EditStart(peer_id) ==
    /\ edit_pc.pc = "moved"
    /\ room_open
    /\ IF is_some(doc_peer) THEN peer_id = unwrap(doc_peer) ELSE peer_id = 1
    /\ LET doc == IF is_some(room_ctx) THEN acl_doc ELSE EmptyAclDoc
           r == reset_acls_callback(doc)
           changes == r.doc # doc
       IN /\ changes => doc_vv[peer_id] < MaxCounter
          /\ IF is_some(checkout)
             THEN /\ UNCHANGED << doc_vv, dirty, doc_peer, acl_doc >>
                  /\ edit_pc' = [edit_pc EXCEPT !.pc = "idle"]
                  /\ last' = Event("edit", "Err", 0, None, {}, FALSE)
             ELSE IF r.res # "Ok"
             THEN /\ acl_doc' = IF is_some(room_ctx) THEN r.doc ELSE acl_doc
                  /\ UNCHANGED << doc_vv, dirty, doc_peer >>
                  /\ edit_pc' = [edit_pc EXCEPT !.pc = "idle"]
                  /\ last' = Event("edit", "Err", 0, None, {}, FALSE)
             ELSE /\ acl_doc' = r.doc
                  /\ doc_vv' = IF changes THEN [doc_vv EXCEPT ![peer_id] = @ + 1] ELSE doc_vv
                  /\ dirty' = (dirty \/ changes)
                  /\ doc_peer' = Some(peer_id)
                  /\ edit_pc' = [edit_pc EXCEPT !.pc = "edited", !.peer_id = peer_id,
                                                !.changes = changes]
                  /\ last' = Event("edit", "Ok", 0, Some(peer_id), {}, FALSE)
    /\ UNCHANGED << side, cfg_secret, caches, pending, conn_state, authed, room_open,
                    room_ctx, subs, store, del_pc, checkout >>

(* edit_doc binds the peer of the edit under the guard of registry.hubs() *)
EditAnnotate ==
    /\ edit_pc.pc = "edited"
    /\ ~hubs_locked
    /\ room_ctx' = IF room_open THEN annotate_peer(room_ctx, edit_pc.peer_id) ELSE room_ctx
    /\ edit_pc' = [edit_pc EXCEPT !.pc = "annotated"]
    /\ last' = Event("annotate", "Ok", 0, Some(edit_pc.peer_id), {}, FALSE)
    /\ UNCHANGED << side, acl_doc, cfg_secret, caches, pending, conn_state, authed, room_open,
                    doc_vv, doc_peer, subs, dirty, store, del_pc, checkout >>

(* edit_doc's close_room, after which the handler answers 200 *)
EditClose(force_close, cbor_ok, db) ==
    /\ edit_pc.pc = "annotated"
    /\ HubCloseRoom(force_close, cbor_ok, db)
    /\ edit_pc' = [edit_pc EXCEPT !.pc = "idle", !.peer_id = 1, !.changes = FALSE]
    /\ last' = [Event("edit_close", "Ok", 0, Some(edit_pc.peer_id), {}, store' # store)
                   EXCEPT !.body = Some([changes |-> edit_pc.changes, force |-> force_close])]
    /\ UNCHANGED << side, acl_doc, cfg_secret, caches, pending, conn_state, del_pc >>

(* ------------------------------------------------------------------ *)
(* Specifications                                                      *)
(* ------------------------------------------------------------------ *)

(* ------------------------------------------------------------------ *)
(* The choice of the stream among the rows of a document               *)
(* ------------------------------------------------------------------ *)

(* The rows load_colab_doc returns are the streams that are not deleted.   *)
(* Of a row: its name, its version, and its content, which may be NULL.    *)
SelRows ==
    [name : {"main", "draft"}, version : 0..MaxSelVersion, content : {None, Some(EmptyPackage)}]

(* Both loads choose among the rows of the document. *)
SelectStreams ==
    /\ ~sel.done
    /\ sel' = [sel EXCEPT !.done = TRUE,
                          !.fetch = fetch_select_latest(sel.streams),
                          !.load = load_select(sel.streams)]
    /\ last' = Event("select", "Ok", 0, None, {}, FALSE)
    /\ UNCHANGED << service, identity_cache, lk, txt, sock, ld, lib >>

(* ------------------------------------------------------------------ *)
(* websocket: the plain socket handler and its broadcast channel       *)
(* ------------------------------------------------------------------ *)

(* broadcast::Receiver::recv on a receiver at position rx.  lim is -1      *)
(* while the Sender of the channel lives, else the number of messages sent *)
(* on the channel before its Sender was dropped with the session.  Lagged  *)
(* when the channel no longer retains the message at rx; when nothing is   *)
(* left to take, Empty (the receiver waits) on a live channel and Closed   *)
(* on a closed one; otherwise the message at rx.                           *)
rbc_recv(bc, rx, lim) ==
    LET n == IF lim < 0 THEN Len(bc) ELSE lim IN
    IF n - rx + 1 > SockCap THEN [kind |-> "Lagged"]
    ELSE IF rx > n THEN [kind |-> IF lim < 0 THEN "Empty" ELSE "Closed"]
    ELSE [kind |-> "Ok", msg |-> bc[rx]]

(* The lock of the map of sessions (a tokio RwLock, which is fair).        *)
(* handle_update_message keeps the read guard it took before the import    *)
(* until it returns or its task is dropped, and handle_load_message keeps  *)
(* its read guard while it waits for the client to take the init message.  *)
(* A connection waits for the write guard at pc "connecting" and           *)
(* "unlinking"; while one waits, no read guard is granted.                 *)
read_held(sk) == \E c \in SockIds : sk.conn[c].snd \in {"applied", "loading"}
write_queued(sk) == \E c \in SockIds : sk.conn[c].pc \in {"connecting", "unlinking"}

(* handle_socket is past its select: the task that had not finished was    *)
(* aborted                                                                 *)
aborted(sk, c) == sk.conn[c].pc # "running"

(* A task returns.  While handle_socket waits in its select the JoinHandle *)
(* holds the result ("done") until the select takes it; after the select   *)
(* nothing awaits the task.                                                *)
task_returns(sk, c) == IF aborted(sk, c) THEN "none" ELSE "done"

(* JoinHandle::abort on send_task takes effect where the task is suspended *)
(* at an await: the task is dropped with the guard and the update it       *)
(* holds.                                                                  *)
abort_send_task(cn) == [cn EXCEPT !.snd = "none", !.upd = 0]

(* JoinHandle::abort on recv_task takes effect where the task is suspended *)
(* in rbc.recv or in the send to its client: the message it holds goes     *)
(* with it.                                                                *)
abort_recv_task(cn) == [cn EXCEPT !.rcv = "none", !.held = 0]

(* The awaits at which send_task can be suspended: receiver.next, the send *)
(* to its client, and the awaits of handle_update_message on the guards of *)
(* the map, of the document and of the channel.  An await on a guard       *)
(* yields not only while a connection waits for the write guard: the       *)
(* runtime's cooperative budget makes any of them return Pending once the  *)
(* task has used up its operations of the poll, so an aborted task can be  *)
(* dropped before the import and between the import and the send on the    *)
(* channel.                                                                *)
send_task_suspended(sk, c) ==
    sk.conn[c].snd \in {"idle", "loading", "ponging", "frame", "applied"}

(* recv_task is suspended in rbc.recv or in the send to its client *)
recv_task_suspended(sk, c) == sk.conn[c].rcv \in {"idle", "taken"}

(* the loop of recv_task ends: the task returns *)
recv_task_ends(sk, c) ==
    [sk EXCEPT !.conn[c].rcv = task_returns(sk, c), !.conn[c].held = 0]

(* the loop of send_task ends: the task returns *)
send_task_ends(sk, c) ==
    [sk EXCEPT !.conn[c].snd = task_returns(sk, c), !.conn[c].upd = 0]

(* The select of handle_socket, lines 164-167: the branch of a task that   *)
(* returned runs and calls abort on the handle of the other task, which    *)
(* has no effect on a task that returned as well; handle_socket goes on to *)
(* cleanup_connection.                                                     *)
handle_socket_select(sk, c) ==
    [sk EXCEPT !.conn[c].pc = "cleanup",
               !.conn[c].snd = IF @ = "done" THEN "none" ELSE @,
               !.conn[c].rcv = IF @ = "done" THEN "none" ELSE @]

(* cleanup_connection up to the release of the read lock: the connection   *)
(* leaves active_connections of the session the map holds for the          *)
(* document, and should_remove_session is decided: the connection goes on  *)
(* to remove the session ("removing") when none remains.                   *)
cleanup_connection(sk, c) ==
    IF sk.open
    THEN [sk EXCEPT !.active = @ \ {c},
                    !.conn[c].pc = IF sk.active \ {c} = {} THEN "removing"
                                   ELSE "closed"]
    ELSE [sk EXCEPT !.conn[c].pc = "closed"]

(* One turn of the loop of recv_task once rbc.recv returns: the loop ends  *)
(* on Err(Lagged) and on Err(Closed) and the task returns; a message of    *)
(* the connection itself is skipped; any other message is taken from the   *)
(* channel, and the task goes on to send it to its client.                 *)
recv_task_step(sk, c) ==
    LET r == rbc_recv(sk.bc, sk.conn[c].rx, sk.conn[c].lim) IN
    IF r.kind \in {"Lagged", "Closed"}
    THEN recv_task_ends(sk, c)
    ELSE IF r.msg.sender_id = c
    THEN [sk EXCEPT !.conn[c].rx = @ + 1]
    ELSE [sk EXCEPT !.conn[c].rx = @ + 1, !.conn[c].held = r.msg.update,
                    !.conn[c].rcv = "taken"]

(* The rest of the turn: the send to the client returns; the loop goes on  *)
(* when the client took the message; when the send failed the loop ends    *)
(* and the task returns.                                                   *)
recv_task_forward(sk, c, client_ok) ==
    IF client_ok
    THEN [sk EXCEPT !.conn[c].got = Append(@, sk.conn[c].held), !.conn[c].held = 0,
                    !.conn[c].rcv = "idle"]
    ELSE recv_task_ends(sk, c)

(* the frames that end the loop of send_task: the pattern                  *)
(* Some(Ok(Message::Text(msg))) matches neither a frame that is not text   *)
(* nor a receive error nor the end of the stream                           *)
ends_send_task(frame) == frame \in {"binary", "error", "end"}

(* the record of a step of a connection and of the update it is about *)
SockEvent(op, c, upd) ==
    [Event(op, "Ok", c, None, {}, FALSE) EXCEPT !.body = Some(upd)]

(* handle_socket, first lock (the write guard): the session of the         *)
(* document is created when the map has none.  The connection waits        *)
(* ("connecting") while a read guard is held.                              *)
SockConnect(c) ==
    /\ \/ /\ sock.conn[c].pc = "new"
          /\ \A d \in SockIds : d < c => sock.conn[d].pc # "new"
       \/ /\ sock.conn[c].pc = "connecting"
          /\ ~read_held(sock)
    /\ sock' = IF read_held(sock)
               THEN [sock EXCEPT !.conn[c].pc = "connecting"]
               ELSE [sock EXCEPT !.open = TRUE, !.conn[c].pc = "created"]
    /\ last' = [SockEvent("sock_connect", c, 0)
                   EXCEPT !.status = IF read_held(sock) THEN "Wait" ELSE "Ok"]
    /\ UNCHANGED << service, sel, ld, lib, identity_cache, lk, txt >>

(* handle_socket, second lock: the connection joins active_connections of *)
(* the session if the map holds one.                                       *)
SockRegister(c) ==
    /\ sock.conn[c].pc = "created"
    /\ ~write_queued(sock)
    /\ sock' = IF sock.open
               THEN [sock EXCEPT !.active = @ \cup {c}, !.conn[c].pc = "added"]
               ELSE [sock EXCEPT !.conn[c].pc = "added"]
    /\ last' = [SockEvent("sock_register", c, 0)
                   EXCEPT !.status = IF sock.open THEN "Ok" ELSE "Err"]
    /\ UNCHANGED << service, sel, ld, lib, identity_cache, lk, txt >>

(* handle_socket, third lock: the connection subscribes to the channel of *)
(* the session and its two tasks start; the unwrap of a missing session    *)
(* panics and ends the handler without cleanup.                            *)
SockSubscribe(c) ==
    /\ sock.conn[c].pc = "added"
    /\ ~write_queued(sock)
    /\ sock' = IF sock.open
               THEN [sock EXCEPT !.conn[c].pc = "running",
                                 !.conn[c].snd = "idle",
                                 !.conn[c].rcv = "idle",
                                 !.conn[c].rx = Len(sock.bc) + 1,
                                 !.conn[c].lim = -1]
               ELSE [sock EXCEPT !.conn[c].pc = "closed"]
    /\ last' = [SockEvent("sock_subscribe", c, 0)
                   EXCEPT !.status = IF sock.open THEN "Ok" ELSE "Panic"]
    /\ UNCHANGED << service, sel, ld, lib, identity_cache, lk, txt >>

(* send_task reads a frame of its client, also when the task was aborted   *)
(* while it ran and the frame had arrived before.  A frame that ends its   *)
(* loop makes send_task return; a text frame that does not parse leaves    *)
(* the loop running; an update message enters handle_update_message, a     *)
(* ping handle_ping_message, whose pong the client has to take.  The       *)
(* update number n of connection c is written 10 * c + n.                  *)
SockFrame(c, frame) ==
    /\ sock.conn[c].snd = "idle"
    /\ frame = "update" => sock.conn[c].sent < MaxLagSends
    /\ sock' = IF ends_send_task(frame) THEN send_task_ends(sock, c)
               ELSE IF frame = "update"
               THEN [sock EXCEPT !.conn[c].snd = "frame",
                                 !.conn[c].sent = @ + 1,
                                 !.conn[c].upd = c * 10 + sock.conn[c].sent + 1]
               ELSE IF frame = "ping"
               THEN [sock EXCEPT !.conn[c].snd = "ponging"]
               ELSE sock
    /\ last' = [SockEvent("sock_frame", c, 0) EXCEPT !.status = frame]
    /\ UNCHANGED << service, sel, ld, lib, identity_cache, lk, txt >>

(* send_task reads a load message: handle_load_message takes the read      *)
(* guard of the map, for which it waits while a connection waits for the   *)
(* write guard, exports the document of the session the map holds and      *)
(* goes on to send the init message to its client with the guard held; it  *)
(* returns at once when the map holds no session or the export fails.      *)
SockLoad(c, export_ok) ==
    /\ sock.conn[c].snd = "idle"
    /\ ~write_queued(sock)
    \* the inputs a branch does not read are fixed
    /\ sock.open \/ export_ok
    /\ sock' = IF sock.open /\ export_ok
               THEN [sock EXCEPT !.conn[c].snd = "loading"]
               ELSE sock
    /\ last' = [SockEvent("sock_load", c, 0)
                   EXCEPT !.status = IF ~sock.open THEN "NoSession"
                                     ELSE IF export_ok THEN "Ok" ELSE "Err"]
    /\ UNCHANGED << service, sel, ld, lib, identity_cache, lk, txt >>

(* The send of send_task to its client returns, the client having taken    *)
(* the init message or the pong, or the send having failed: the handler    *)
(* returns either way, its guard is released and the loop goes on.         *)
SockSent(c, client_ok) ==
    /\ sock.conn[c].snd \in {"loading", "ponging"}
    /\ sock' = [sock EXCEPT !.conn[c].snd = "idle"]
    /\ last' = [SockEvent("sock_sent", c, 0)
                   EXCEPT !.status = IF client_ok THEN "Ok" ELSE "Err"]
    /\ UNCHANGED << service, sel, ld, lib, identity_cache, lk, txt >>

(* handle_update_message up to the release of the document lock: a delta   *)
(* that does not import into a new document is dropped before any lock;    *)
(* otherwise the read guard of the map is awaited, which is pending while  *)
(* a connection waits for the write guard; with the guard the delta is     *)
(* imported into the document of the session the map holds; the handler    *)
(* returns when the map holds none or the import fails.                    *)
SockApply(c, valid, import_ok) ==
    /\ sock.conn[c].snd = "frame"
    /\ valid => ~write_queued(sock)
    \* the inputs a branch does not read are fixed
    /\ (valid /\ sock.open) \/ import_ok
    /\ LET upd == sock.conn[c].upd IN
       /\ sock' = IF valid /\ sock.open /\ import_ok
                  THEN [sock EXCEPT !.doc = Append(@, upd),
                                    !.conn[c].snd = "applied"]
                  ELSE [sock EXCEPT !.conn[c].snd = "idle", !.conn[c].upd = 0]
       /\ last' = [SockEvent("sock_apply", c, upd)
                      EXCEPT !.status = IF ~valid THEN "Err"
                                        ELSE IF ~sock.open THEN "NoSession"
                                        ELSE IF import_ok THEN "Ok" ELSE "ImportErr"]
    /\ UNCHANGED << service, sel, ld, lib, identity_cache, lk, txt >>

(* The rest of handle_update_message, with the first read guard still      *)
(* held: the second read guard of the map is awaited, which is pending     *)
(* for ever while a connection waits for the write guard; otherwise the    *)
(* update goes to the channel of the session the map holds, the handler    *)
(* returns and the loop of send_task goes on.                              *)
SockBroadcast(c) ==
    /\ sock.conn[c].snd = "applied"
    /\ ~write_queued(sock)
    /\ sock' = IF sock.open
               THEN [sock EXCEPT !.bc = Append(@, [sender_id |-> c,
                                                   update |-> sock.conn[c].upd]),
                                 !.conn[c].snd = "idle",
                                 !.conn[c].upd = 0]
               ELSE [sock EXCEPT !.conn[c].snd = "idle", !.conn[c].upd = 0]
    /\ last' = [SockEvent("sock_broadcast", c, sock.conn[c].upd)
                   EXCEPT !.status = IF sock.open THEN "Ok" ELSE "NoSession"]
    /\ UNCHANGED << service, sel, ld, lib, identity_cache, lk, txt >>

(* rbc.recv of recv_task returns *)
SockRecv(c) ==
    /\ sock.conn[c].rcv = "idle"
    /\ rbc_recv(sock.bc, sock.conn[c].rx, sock.conn[c].lim).kind # "Empty"
    /\ sock' = recv_task_step(sock, c)
    /\ last' = [SockEvent("sock_recv", c, sock.conn[c].upd)
                   EXCEPT !.status =
                      rbc_recv(sock.bc, sock.conn[c].rx, sock.conn[c].lim).kind]
    /\ UNCHANGED << service, sel, ld, lib, identity_cache, lk, txt >>

(* the send of recv_task to its client returns *)
SockForward(c, client_ok) ==
    /\ sock.conn[c].rcv = "taken"
    /\ sock' = recv_task_forward(sock, c, client_ok)
    /\ last' = [SockEvent("sock_forward", c, sock.conn[c].held)
                   EXCEPT !.status = IF client_ok THEN "Ok" ELSE "Err"]
    /\ UNCHANGED << service, sel, ld, lib, identity_cache, lk, txt >>

(* handle_socket's select returns once one of the two tasks has returned,  *)
(* and aborts the other.                                                   *)
SockSelect(c) ==
    /\ sock.conn[c].pc = "running"
    /\ sock.conn[c].snd = "done" \/ sock.conn[c].rcv = "done"
    /\ sock' = handle_socket_select(sock, c)
    /\ last' = [SockEvent("sock_select", c, 0)
                   EXCEPT !.status = IF sock.conn[c].snd = "done" THEN "send_task"
                                     ELSE "recv_task"]
    /\ UNCHANGED << service, sel, ld, lib, identity_cache, lk, txt >>

(* The abort of send_task takes effect: the task is dropped at the await   *)
(* it is suspended at.                                                     *)
SockDropSendTask(c) ==
    /\ aborted(sock, c)
    /\ sock.conn[c].snd # "none"
    /\ send_task_suspended(sock, c)
    /\ sock' = [sock EXCEPT !.conn[c] = abort_send_task(@)]
    /\ last' = SockEvent("sock_drop_send", c, sock.conn[c].upd)
    /\ UNCHANGED << service, sel, ld, lib, identity_cache, lk, txt >>

(* The abort of recv_task takes effect: the task is dropped at the await   *)
(* it is suspended at.                                                     *)
SockDropRecvTask(c) ==
    /\ aborted(sock, c)
    /\ sock.conn[c].rcv # "none"
    /\ recv_task_suspended(sock, c)
    /\ sock' = [sock EXCEPT !.conn[c] = abort_recv_task(@)]
    /\ last' = SockEvent("sock_drop_recv", c, sock.conn[c].held)
    /\ UNCHANGED << service, sel, ld, lib, identity_cache, lk, txt >>

(* cleanup_connection under the read guard of the map *)
SockCleanup(c) ==
    /\ sock.conn[c].pc = "cleanup"
    /\ ~write_queued(sock)
    /\ sock' = cleanup_connection(sock, c)
    /\ last' = SockEvent("sock_cleanup", c, 0)
    /\ UNCHANGED << service, sel, ld, lib, identity_cache, lk, txt >>

(* cleanup_connection after the read guard: should_remove_session was      *)
(* decided, the session is removed from the map under the write guard,     *)
(* for which the connection waits ("unlinking") while a read guard is      *)
(* held.  Its document, its set of connections and the Sender of its       *)
(* channel go with the session: the receivers still subscribed find the    *)
(* channel closed after the messages sent so far.                          *)
SockRemoveSession(c) ==
    /\ \/ sock.conn[c].pc = "removing"
       \/ sock.conn[c].pc = "unlinking" /\ ~read_held(sock)
    /\ sock' = IF read_held(sock)
               THEN [sock EXCEPT !.conn[c].pc = "unlinking"]
               ELSE [sock EXCEPT
                       !.open = FALSE, !.doc = << >>, !.active = {},
                       !.conn = [d \in SockIds |->
                           IF d = c THEN [sock.conn[d] EXCEPT !.pc = "closed"]
                           ELSE IF sock.conn[d].rcv \in {"idle", "taken"}
                                   /\ sock.conn[d].lim < 0
                           THEN [sock.conn[d] EXCEPT !.lim = Len(sock.bc)]
                           ELSE sock.conn[d]]]
    /\ last' = [SockEvent("sock_remove", c, 0)
                   EXCEPT !.status = IF read_held(sock) THEN "Wait"
                                     ELSE IF sock.open THEN "Ok" ELSE "NoSession"]
    /\ UNCHANGED << service, sel, ld, lib, identity_cache, lk, txt >>

(* ------------------------------------------------------------------ *)
(* ws/userctx: the identity lookup of the HTTP side                    *)
(* ------------------------------------------------------------------ *)

(* Ok(principals) is Some(principals), Err is None.  The answer of the     *)
(* principal service is its list for the user, or JSON that does not       *)
(* parse as a list, which yields the empty list.                           *)
fetch_user_prpls_from_service(uid, rpc) ==
    IF rpc = "noclient" THEN None
    ELSE IF rpc = "err" THEN None
    ELSE IF rpc = "unparsable" THEN Some(<< >>)
    ELSE Some(get_prpls(uid))

(* the variant that caches an empty context when the fetch fails *)
get_or_fetch_user_ctx_async_poison(uid, token_roles, fetched_prpls, cache) ==
    IF ~is_some(fetched_prpls)
    THEN [res |-> None,
          cache |-> [cache EXCEPT ![uid] =
                        Some([principals |-> << >>, token_roles |-> token_roles])]]
    ELSE LET new_ctx == [principals |-> unwrap(fetched_prpls), token_roles |-> token_roles]
         IN [res |-> Some(new_ctx), cache |-> [cache EXCEPT ![uid] = Some(new_ctx)]]

(* get_or_fetch_user_ctx_async from the return of its await on: a failed   *)
(* fetch is handed on and leaves the cache alone, otherwise the new        *)
(* context is inserted over whatever the cache holds by then.  Ok(ctx) is  *)
(* Some(ctx).                                                              *)
get_or_fetch_user_ctx_async(uid, token_roles, fetched_prpls, cache) ==
    IF ~is_some(fetched_prpls)
    THEN [res |-> None, cache |-> cache]
    ELSE LET new_ctx == [principals |-> unwrap(fetched_prpls), token_roles |-> token_roles]
         IN [res |-> Some(new_ctx), cache |-> [cache EXCEPT ![uid] = Some(new_ctx)]]

(* The principals of a context: its fetched principals followed by one     *)
(* role principal for each of its token roles.                             *)
get_all_prpls(ctx) ==
    ctx.principals \o [i \in 1..Len(ctx.token_roles) |-> "r/" \o ctx.token_roles[i]]

(* auth_middleware: the principals of the context and, for each role of    *)
(* the token of the request, its role principal unless the list has it     *)
RECURSIVE middleware_prpls(_, _)
middleware_prpls(prpls, roles) ==
    IF roles = << >> THEN prpls
    ELSE LET role_prpl == "r/" \o Head(roles)
         IN middleware_prpls(IF \E i \in 1..Len(prpls) : prpls[i] = role_prpl
                             THEN prpls ELSE Append(prpls, role_prpl),
                             Tail(roles))

(* the principals a request is answered with *)
request_prpls(via, ctx, token_roles) ==
    IF via = "middleware" THEN middleware_prpls(ctx.principals, token_roles)
    ELSE get_all_prpls(ctx)

(* what a lookup reports: the user, the outcome of the principal service,  *)
(* whether it was asked, the context obtained and the principals answered  *)
LookupEvent(via, status, uid, token_roles, rpc, fetched, ctx, prpls) ==
    [Event(via, status, 0, None, {}, FALSE)
        EXCEPT !.body = Some([uid |-> uid, rpc |-> rpc, fetched |-> fetched, ctx |-> ctx,
                              token_roles |-> token_roles, prpls |-> prpls])]

(* A request resolves its identity, through get_user_prpls ("lookup") or   *)
(* through auth_middleware ("middleware"), up to the await of the          *)
(* principal service: without a configured secret, with a token that does  *)
(* not validate or lacks the sub claim it fails before the cache is read;  *)
(* the middleware answers a service token with "s/<sub>" and refuses any   *)
(* other type; a user found in the cache is answered from it, unless       *)
(* get_user_prpls asks for a refresh.  The middleware hands no roles to    *)
(* the context it creates.                                                 *)
Lookup(k, via, token, token_type, token_roles, force_refresh) ==
    /\ lk[k].pc = "idle"
    /\ \A j \in 1..MaxLookups : j < k => lk[j].pc # "idle"
    /\ via = "lookup" => token_type = "user"
    /\ via = "middleware" => ~force_refresh
    /\ LET fail == LookupEvent(via, "Err", "", token_roles, "none", FALSE, None, << >>)
       IN
       IF ~cfg_secret \/ token \in {"invalid", "nosub"} \/ token_type = "other"
       THEN /\ last' = fail
            /\ lk' = lk
       ELSE IF token_type = "service"
       THEN /\ last' = LookupEvent(via, "Ok", token, token_roles, "none", FALSE, None,
                                   << "s/" \o token >>)
            /\ lk' = lk
       ELSE IF is_some(identity_cache[token]) /\ ~force_refresh
       THEN /\ last' = LookupEvent(via, "Ok", token, token_roles, "none", FALSE,
                                   identity_cache[token],
                                   request_prpls(via, unwrap(identity_cache[token]),
                                                 token_roles))
            /\ lk' = lk
       ELSE /\ last' = LookupEvent(via, "Fetch", token, token_roles, "none", FALSE, None,
                                   << >>)
            /\ lk' = [lk EXCEPT ![k] = [pc |-> "fetch", uid |-> token,
                                        token_roles |-> token_roles, via |-> via]]
    /\ UNCHANGED << service, identity_cache, sel, ld, lib, txt, sock >>

(* The principal service answers a lookup that waits for it. *)
LookupFetched(k, rpc) ==
    /\ lk[k].pc = "fetch"
    /\ LET q == lk[k]
           r == get_or_fetch_user_ctx_async(
                    q.uid, IF q.via = "middleware" THEN << >> ELSE q.token_roles,
                    fetch_user_prpls_from_service(q.uid, rpc), identity_cache)
       IN /\ identity_cache' = r.cache
          /\ last' = LookupEvent(q.via, IF is_some(r.res) THEN "Ok" ELSE "Err", q.uid,
                                 q.token_roles, rpc, TRUE, r.res,
                                 IF is_some(r.res)
                                 THEN request_prpls(q.via, unwrap(r.res), q.token_roles)
                                 ELSE << >>)
    /\ lk' = [lk EXCEPT ![k] = NoLookup]
    /\ UNCHANGED << service, sel, ld, lib, txt, sock >>

(* The cache drops an entry that was idle for its time_to_idle. *)
EvictIdentity(uid) ==
    /\ is_some(identity_cache[uid])
    /\ identity_cache' = [identity_cache EXCEPT ![uid] = None]
    /\ last' = Event("evict_identity", "Ok", 0, None, {}, FALSE)
    /\ UNCHANGED << service, lk, sel, ld, lib, txt, sock >>

(* ------------------------------------------------------------------ *)
(* models/lorodoc: a text element of the JSON model as a CRDT map      *)
(* ------------------------------------------------------------------ *)
MAX_DEPTH == 100

(* TextElement / TextElementChild: a chain of elements, each the only      *)
(* child of the one above, written as the path from the root (depth 0) to  *)
(* the deepest element (depth n), which holds the strings of leaf; the     *)
(* names alternate with the depth                                          *)
Chain(n, names, leaf) ==
    [path |-> [i \in 1..(n + 1) |->
                  [node_name |-> names[((i - 1) % 2) + 1],
                   attributes |-> [class |-> names[((i - 1) % 2) + 1]]]],
     leaf |-> leaf]

TextElements ==
    { Chain(n, names, leaf) :
        n \in 0..MaxNest, names \in {"p", "span"} \X {"p", "span"},
        leaf \in { << >>, << "t" >> } }

(* the children list of the map of the element at a depth: the LoroText    *)
(* containers of the strings of the deepest element, otherwise the one     *)
(* nested map, which is the next node of the path                          *)
children_list(chain, depth) ==
    IF depth + 1 = Len(chain.path)
    THEN [kind |-> "texts",
          items |-> [i \in 1..Len(chain.leaf) |-> [text |-> chain.leaf[i]]]]
    ELSE [kind |-> "maps", items |-> 1]

(* the map of the element at a depth: its nodeName, its attributes and its *)
(* children list                                                           *)
loro_map_of(chain, depth) ==
    [nodeName |-> chain.path[depth + 1].node_name,
     attributes |-> chain.path[depth + 1].attributes,
     children |-> children_list(chain, depth)]

(* the limit check at the head of txtelem_child_to_loro_map *)
truncate_at(depth, max_depth) == depth >= max_depth

(* The maps made of the element at a depth and of the elements below it,   *)
(* as the path from that map downwards.  The recursion of the code is      *)
(* unfolded along the path: the call for depth d happens when d is on the  *)
(* path and no call above it returned at the limit check.                  *)
txtelem_child_to_loro_map(chain, depth, max_depth) ==
    LET called == { d \in depth..(Len(chain.path) - 1) :
                      \A above \in depth..(d - 1) : ~truncate_at(above, max_depth) }
    IN [i \in 1..Cardinality(called) |->
          LET d == depth + i - 1
          IN IF truncate_at(d, max_depth)
             THEN [nodeName |-> "truncated", children |-> "[Max depth exceeded]"]
             ELSE loro_map_of(chain, d)]

txtelem_to_loro_doc(text_element) ==
    IF Len(text_element.path) = 1
    THEN << loro_map_of(text_element, 0) >>
    ELSE << loro_map_of(text_element, 0) >>
         \o txtelem_child_to_loro_map(text_element, 1, MAX_DEPTH)

(* The conversion of the text element at hand. *)
ConvertText ==
    /\ is_some(txt.elem)
    /\ ~is_some(txt.out)
    /\ txt' = [txt EXCEPT !.out = Some(txtelem_to_loro_doc(unwrap(txt.elem)))]
    /\ last' = Event("to_loro", "Ok", 0, None, {}, FALSE)
    /\ UNCHANGED << service, sel, ld, lib, identity_cache, lk, sock >>

(* Sessions, updates, the save ticker, connection close and room teardown. *)
Next ==
    \/ \E c \in ConnIds, o \in Orgs, t \in Tokens, r \in RpcOutcomes : Handshake(c, o, t, r)
    \/ \E c \in ConnIds, db \in DbOutcomes, u \in BOOLEAN : Authenticate(c, db, u)
    \/ \E c \in ConnIds, db \in DbOutcomes : AuthenticateDone(c, db)
    \/ \E c \in ConnIds, u \in BOOLEAN, db \in DbOutcomes, cb \in BOOLEAN,
          f \in 1..MaxStreams : JoinRoom(c, u, db, cb, f)
    \/ \E idb \in DbOutcomes, sp \in Peers : LoadDocumentInsert(idb, sp)
    \/ \E c \in ConnIds, u \in SUBSET Peers, pk \in Peers, io \in BOOLEAN :
          HubUpdate(c, u, pk, io)
    \/ \E cb \in BOOLEAN, db \in DbOutcomes : SaveTick(cb, db)
    \/ \E c \in ConnIds : CloseConnection(c)
    \/ \E cb \in BOOLEAN, db \in DbOutcomes : RoomTeardown(cb, db)

Spec == Init /\ [][Next]_vars

(* One session, its updates and the save ticker together with system     *)
(* edits.                                                                  *)
NextEdit ==
    \/ \E o \in Orgs, t \in Tokens, r \in RpcOutcomes : Handshake(1, o, t, r)
    \/ \E db \in DbOutcomes, u \in BOOLEAN : Authenticate(1, db, u)
    \/ \E db \in DbOutcomes : AuthenticateDone(1, db)
    \/ \E u \in BOOLEAN, db \in DbOutcomes, cb \in BOOLEAN, f \in 1..MaxStreams :
          JoinRoom(1, u, db, cb, f)
    \/ \E idb \in DbOutcomes, sp \in Peers : LoadDocumentInsert(idb, sp)
    \/ \E u \in SUBSET Peers, pk \in Peers : HubUpdate(1, u, pk, TRUE)
    \/ \E cb \in BOOLEAN, db \in DbOutcomes : SaveTick(cb, db)
    \/ \E pr \in CallerPrpls, u \in BOOLEAN, lid \in Libs, mdb \in DbOutcomes :
          EditMove(pr, u, lid, mdb)
    \/ \E db \in DbOutcomes, cb \in BOOLEAN, f \in 1..MaxStreams : EditOpen(db, cb, f)
    \/ \E p \in Peers : EditStart(p)
    \/ EditAnnotate
    \/ \E f \in BOOLEAN, cb \in BOOLEAN, db \in DbOutcomes : EditClose(f, cb, db)

InitEdit ==
    /\ InitBase
    /\ txt = NoText
    /\ sel = NoSel
    /\ store \in InitStores
    /\ acl_doc \in EditAclDocs

SpecEdit == InitEdit /\ [][NextEdit]_vars

(* the requests to the export endpoints that run beside a session *)
ExportLoaders == {1}

(* One session and its updates together with the export endpoints. *)
NextExport ==
    \/ \E o \in Orgs, t \in Tokens, r \in RpcOutcomes : Handshake(1, o, t, r)
    \/ \E db \in DbOutcomes, u \in BOOLEAN : Authenticate(1, db, u)
    \/ \E db \in DbOutcomes : AuthenticateDone(1, db)
    \/ \E u \in BOOLEAN, db \in DbOutcomes, cb \in BOOLEAN, f \in 1..MaxStreams :
          JoinRoom(1, u, db, cb, f)
    \/ \E idb \in DbOutcomes, sp \in Peers : LoadDocumentInsert(idb, sp)
    \/ \E u \in SUBSET Peers, pk \in Peers : HubUpdate(1, u, pk, TRUE)
    \/ \E l \in ExportLoaders, pr \in CallerPrpls, fo \in BOOLEAN, u \in BOOLEAN,
          v \in Versions : Version(l, pr, fo, u, v)
    \/ \E l \in ExportLoaders, vv \in VersionVectors : VersionFrontiers(l, vv)
    \/ \E l \in ExportLoaders, co \in BOOLEAN : VersionCheckout(l, co)
    \/ \E l \in ExportLoaders, eo \in BOOLEAN : VersionAnswer(l, eo)
    \/ \E l \in ExportLoaders, pr \in CallerPrpls, fo \in BOOLEAN, u \in BOOLEAN,
          eo \in BOOLEAN : Latest(l, pr, fo, u, eo)
    \/ \E l \in ExportLoaders, db \in DbOutcomes, cb \in BOOLEAN, f \in 1..MaxStreams,
          vv \in VersionVectors, eo \in BOOLEAN : LoadRead(l, db, cb, f, vv, eo)
    \/ \E l \in ExportLoaders, idb \in DbOutcomes, sp \in Peers, vv \in VersionVectors,
          eo \in BOOLEAN : LoadInsert(l, idb, sp, vv, eo)
    \/ \E pr \in CallerPrpls : Diagnostics(pr)

SpecExport == Init /\ [][NextExport]_vars

(* One session, its updates and the save ticker together with two         *)
(* concurrent delete requests.                                             *)
NextDelete ==
    \/ \E o \in Orgs, t \in Tokens, r \in RpcOutcomes : Handshake(1, o, t, r)
    \/ \E db \in DbOutcomes, u \in BOOLEAN : Authenticate(1, db, u)
    \/ \E db \in DbOutcomes : AuthenticateDone(1, db)
    \/ \E u \in BOOLEAN, db \in DbOutcomes, cb \in BOOLEAN, f \in 1..MaxStreams :
          JoinRoom(1, u, db, cb, f)
    \/ \E idb \in DbOutcomes, sp \in Peers : LoadDocumentInsert(idb, sp)
    \/ \E u \in SUBSET Peers, pk \in Peers, io \in BOOLEAN : HubUpdate(1, u, pk, io)
    \/ \E cb \in BOOLEAN, db \in DbOutcomes : SaveTick(cb, db)
    \/ \E d \in DeleteReqs, pr \in CallerPrpls, u \in BOOLEAN, db \in DbOutcomes :
          DeleteMark(d, pr, u, db)
    \/ \E d \in DeleteReqs, cb \in BOOLEAN, db \in DbOutcomes : DeleteClose(d, cb, db)

SpecDelete == Init /\ [][NextDelete]_vars

(* One session and its updates together with the idle eviction of the     *)
(* identity cache and the updates of the service itself.                   *)
NextAdmit ==
    \/ \E o \in Orgs, t \in Tokens, r \in RpcOutcomes : Handshake(1, o, t, r)
    \/ \E db \in DbOutcomes, u \in BOOLEAN : Authenticate(1, db, u)
    \/ \E db \in DbOutcomes : AuthenticateDone(1, db)
    \/ \E u \in BOOLEAN, db \in DbOutcomes, cb \in BOOLEAN, f \in 1..MaxStreams :
          JoinRoom(1, u, db, cb, f)
    \/ \E idb \in DbOutcomes, sp \in Peers : LoadDocumentInsert(idb, sp)
    \/ \E u \in SUBSET Peers, pk \in Peers : HubUpdate(1, u, pk, TRUE)
    \/ \E u \in SUBSET Peers, pk \in Peers : SystemUpdate(u, pk)
    \/ \E uid \in Uids : EvictUserCtx(uid)
    \/ EvictConnCtx(1)
    \/ CloseConnection(1)

SpecAdmit == Init /\ [][NextAdmit]_vars

(* the two connections whose every step is followed *)
SockPair == {1, 2}

(* Two connections of one document on the plain socket handler, with       *)
(* every frame their clients may send.                                     *)
NextSock ==
    \/ \E c \in SockPair : SockConnect(c)
    \/ \E c \in SockPair : SockRegister(c)
    \/ \E c \in SockPair : SockSubscribe(c)
    \/ \E c \in SockPair, frame \in SockFrames :
          /\ frame = "update" => sock.conn[c].sent < MaxSockSends
          /\ SockFrame(c, frame)
    \/ \E c \in SockPair, eo \in BOOLEAN : SockLoad(c, eo)
    \/ \E c \in SockPair, ok \in BOOLEAN : SockSent(c, ok)
    \/ \E c \in SockPair, valid \in BOOLEAN, io \in BOOLEAN : SockApply(c, valid, io)
    \/ \E c \in SockPair : SockBroadcast(c)
    \/ \E c \in SockPair : SockRecv(c)
    \/ \E c \in SockPair, ok \in BOOLEAN : SockForward(c, ok)
    \/ \E c \in SockPair : SockSelect(c)
    \/ \E c \in SockPair : SockDropSendTask(c)
    \/ \E c \in SockPair : SockDropRecvTask(c)
    \/ \E c \in SockPair : SockCleanup(c)
    \/ \E c \in SockPair : SockRemoveSession(c)

(* The socket handler reads neither the configuration nor the store: one  *)
(* initial state of them suffices.                                         *)
InitSock == Init /\ cfg_secret /\ store.streams = << >>

SpecSock == InitSock /\ [][NextSock]_vars

(* The connections of a document while they all stay open: the first      *)
(* MaxSockSenders of them send an update each, and every connection is     *)
(* forwarded the updates of the others.                                    *)
NextFanout ==
    \/ \E c \in SockIds : SockConnect(c)
    \/ \E c \in SockIds : SockRegister(c)
    \/ \E c \in SockIds : SockSubscribe(c)
    \/ \E c \in 1..MaxSockSenders :
          /\ sock.conn[c].sent < MaxSockSends
          /\ SockFrame(c, "update")
    \/ \E c \in SockIds : SockApply(c, TRUE, TRUE)
    \/ \E c \in SockIds : SockBroadcast(c)
    \/ \E c \in SockIds : SockRecv(c)
    \/ \E c \in SockIds : SockForward(c, TRUE)

SpecFanout == InitSock /\ [][NextFanout]_vars

(* the steps of a connection that wait for nothing but the runtime: the    *)
(* handler, the receive from the channel, the import and the send to the   *)
(* channel, the select, the drop of an aborted task and the cleanup        *)
SockServerStep(c) ==
    \/ SockConnect(c)
    \/ SockRegister(c)
    \/ SockSubscribe(c)
    \/ SockApply(c, TRUE, TRUE)
    \/ SockBroadcast(c)
    \/ SockRecv(c)
    \/ SockSelect(c)
    \/ SockDropSendTask(c)
    \/ SockDropRecvTask(c)
    \/ SockCleanup(c)
    \/ SockRemoveSession(c)

(* the steps that wait for the client of a connection: a frame it sends,   *)
(* and its taking of a forwarded message                                   *)
SockClientStep(c) ==
    \/ c = 1 /\ SockFrame(c, "update")
    \/ SockFrame(c, "end")
    \/ \E ok \in BOOLEAN : SockForward(c, ok)

(* A sender and a subscriber of one document: connection 1 sends up to     *)
(* MaxLagSends updates, which connection 2 is forwarded.                   *)
NextLag == \E c \in SockPair : SockServerStep(c) \/ SockClientStep(c)

(* The runtime runs every task that can go on; nothing makes a client take *)
(* a message or send a frame.                                              *)
SpecLag ==
    /\ InitSock
    /\ [][NextLag]_vars
    /\ \A c \in SockPair : WF_vars(SockServerStep(c))

(* Identity lookups with every outcome of the principal service, beside  *)
(* the idle eviction of the cache.                                         *)
NextLookup ==
    \/ \E k \in 1..MaxLookups, via \in {"lookup", "middleware"},
          t \in {"invalid", "nosub"} \cup Uids, ty \in {"user", "service", "other"},
          roles \in { << >>, << "Admin" >> }, fr \in BOOLEAN :
          Lookup(k, via, t, ty, roles, fr)
    \/ \E k \in 1..MaxLookups, rpc \in RpcOutcomes \cup {"unparsable"} : LookupFetched(k, rpc)
    \/ \E uid \in Uids : EvictIdentity(uid)

SpecLookup == Init /\ [][NextLookup]_vars

(* The conversion applied to every chain of the bounded depths. *)
InitText ==
    /\ InitBase
    /\ store \in InitStores
    /\ acl_doc = NoAclDoc
    /\ txt \in { [elem |-> Some(e), out |-> None] : e \in TextElements }
    /\ sel = NoSel

SpecText == InitText /\ [][ConvertText]_vars

(* The ACL walk applied to every document of the bounded shapes. *)
InitAcl ==
    /\ InitBase
    /\ txt = NoText
    /\ sel = NoSel
    /\ store \in InitStores
    /\ acl_doc \in AclDocs

(* Requests for a document without stream rows that bypass the hub. *)
NextLoad ==
    \/ \E l \in Loaders, pr \in CallerPrpls, fo \in BOOLEAN, u \in BOOLEAN,
          v \in Versions : Version(l, pr, fo, u, v)
    \/ \E l \in Loaders, pr \in CallerPrpls, fo \in BOOLEAN, u \in BOOLEAN,
          eo \in BOOLEAN : Latest(l, pr, fo, u, eo)
    \/ \E l \in Loaders, db \in DbOutcomes, cb \in BOOLEAN, f \in 1..MaxStreams,
          vv \in VersionVectors, eo \in BOOLEAN : LoadRead(l, db, cb, f, vv, eo)
    \/ \E l \in Loaders, idb \in DbOutcomes, sp \in Peers, vv \in VersionVectors,
          eo \in BOOLEAN : LoadInsert(l, idb, sp, vv, eo)

InitLoad == Init /\ store.streams = << >>

SpecLoad == InitLoad /\ [][NextLoad]_vars

(* The choice of the stream, for every sequence of rows of the bounds. *)
InitSelect ==
    /\ InitBase
    /\ txt = NoText
    /\ store \in InitStores
    /\ acl_doc = NoAclDoc
    /\ sel \in { [NoSel EXCEPT !.streams = s] : s \in SeqUpTo(SelRows, MaxSelRows) }

SpecSelect == InitSelect /\ [][SelectStreams]_vars

NextAcl == ResetAcls

SpecAcl == InitAcl /\ [][NextAcl]_vars

(* update_colab_doc applied to stores with and without the stream row and *)
(* the model row.                                                          *)
DbStores ==
    { [deleted |-> FALSE, streams |-> s, json |-> j] :
        s \in {<< >>, << DocumentStreamRow("main", StoredVersion, Some(EmptyPackage)) >>},
        j \in {None, Some(ZeroVV)} }

InitDb ==
    /\ InitBase
    /\ txt = NoText
    /\ sel = NoSel
    /\ store \in DbStores
    /\ acl_doc = NoAclDoc

UpdateColabDoc(doc_type, doc_stream_id, snapshot) ==
    /\ LET blob == [EmptyPackage EXCEPT !.snapshot = snapshot]
           r == update_colab_doc(store, doc_type, doc_stream_id, blob, snapshot)
       IN /\ store' = r.store
          /\ last' = Response("update_colab_doc", << >>, r.res,
                              Some([doc_type |-> doc_type, doc_stream_id |-> doc_stream_id]))
    /\ UNCHANGED << side, acl_doc, cfg_secret, caches, pending, conn_state, authed, room, edit_pc, del_pc >>

NextDb ==
    \E t \in DocTypes, i \in 1..MaxStreams, v \in [Peers -> 0..MaxCounter] :
        UpdateColabDoc(t, i, v)

SpecDb == InitDb /\ [][NextDb]_vars

(* ------------------------------------------------------------------ *)
(* Properties                                                          *)
(* ------------------------------------------------------------------ *)
RoomPeerMap == IF is_some(room_ctx) THEN unwrap(room_ctx).peer_map ELSE EmptyMap
RoomLastUpdatingPeer ==
    IF is_some(room_ctx) THEN unwrap(room_ctx).last_updating_peer ELSE None

(* the content of the stream row the room was loaded from and saves to *)
RoomStream ==
    IF is_some(room_ctx) /\ is_some(stream_row(store, unwrap(room_ctx).doc_stream_id))
    THEN unwrap(stream_row(store, unwrap(room_ctx).doc_stream_id)).content
    ELSE None

(* the principal list the identity cache holds for the user of a connection *)
CachedPrpls(c) ==
    IF is_some(conn_ctx_cache[c]) /\ is_some(user_ctx_cache[unwrap(conn_ctx_cache[c]).uid])
    THEN LET l == unwrap(user_ctx_cache[unwrap(conn_ctx_cache[c]).uid]).principals
         IN {l[i] : i \in 1..Len(l)}
    ELSE {}

(* UserCtx::get_user_principal: the first principal "<org_id>/u/..." *)
get_user_principal(principals, org_id) ==
    LET idx == {i \in 1..Len(principals) : starts_with(principals[i], org_id \o "/u/")} IN
    IF idx = {} THEN None
    ELSE Some(principals[CHOOSE i \in idx : \A j \in idx : i <= j])

(* C1: while the room stays loaded, a peer bound in peer_map keeps its     *)
(* principal: no operation rebinds or removes it.                          *)
C1_PeerBindingStable ==
    [][ (room_open /\ room_open' /\ is_some(room_ctx) /\ is_some(room_ctx'))
        => \A p \in DOMAIN RoomPeerMap :
              /\ p \in DOMAIN RoomPeerMap'
              /\ RoomPeerMap'[p] = RoomPeerMap[p] ]_vars

(* C2: an update rejected with PermissionDenied leaves the room as it was: *)
(* document, context (peer_map, last_updating_peer) and dirty unchanged,   *)
(* nothing fanned out.                                                     *)
C2_RejectLeavesRoomUnchanged ==
    [][ (last'.op = "update" /\ last'.status = "PermissionDenied")
        => /\ doc_vv' = doc_vv
           /\ room_ctx' = room_ctx
           /\ dirty' = dirty
           /\ last'.fanout = {} ]_vars

(* a batch on a peer bound to another principal has just been rejected in  *)
(* a room that holds accepted content                                      *)
C2_Witness ==
    /\ last.op = "update" /\ last.status = "PermissionDenied"
    /\ is_some(last.peer) /\ is_some(conn_ctx_cache[last.conn])
    /\ unwrap(last.peer) \in DOMAIN RoomPeerMap
    /\ RoomPeerMap[unwrap(last.peer)] #
          user_prpl(unwrap(conn_ctx_cache[last.conn]).org_id,
                    unwrap(conn_ctx_cache[last.conn]).uid)
    /\ doc_vv[unwrap(last.peer)] > 0
    /\ dirty

(* C3: after a successful save the persisted package binds every peer of   *)
(* the persisted snapshot's version vector.                                *)
C3_SavedPeersBound ==
    (last.op = "save" /\ last.status = "Ok" /\ last.wrote)
    => /\ is_some(RoomStream)
       /\ \A p \in Peers : unwrap(RoomStream).snapshot[p] > 0
                           => p \in DOMAIN unwrap(RoomStream).peer_map

(* C4: after an accepted update that advanced a peer, the updating peer is *)
(* bound in the room's peer_map.                                           *)
C4_AcceptedPeerRecorded ==
    (last.op = "update" /\ last.status = "Ok" /\ is_some(last.peer))
    => /\ is_some(room_ctx)
       /\ unwrap(last.peer) \in DOMAIN RoomPeerMap

(* an update that advanced a peer has just been accepted *)
C4_Witness ==
    /\ last.op = "update" /\ last.status = "Ok" /\ is_some(last.peer)
    /\ doc_vv[unwrap(last.peer)] > 0
    /\ RoomLastUpdatingPeer = last.peer

(* C5: a batch whose updating peer is already bound is accepted iff the    *)
(* bound principal is in the principal set the identity cache holds for    *)
(* the submitting connection's user.                                       *)
C5_AcceptIffCachedPrincipal ==
    [][ (last'.op = "update" /\ is_some(last'.peer) /\ is_some(room_ctx)
         /\ unwrap(last'.peer) \in DOMAIN RoomPeerMap)
        => ((last'.status = "Ok")
            <=> (RoomPeerMap[unwrap(last'.peer)] \in CachedPrpls(last'.conn))) ]_vars

(* C6: a principal "<org>/u/<uid>" bound in the room's peer_map belongs to *)
(* a user who is a member of the room's organization.                      *)
C6_BoundUsersAreMembers ==
    \A p \in DOMAIN RoomPeerMap : \A uid \in Uids :
        RoomPeerMap[p] = user_prpl(RoomOrg, uid)
            => is_some(get_user_principal(get_prpls(uid), RoomOrg))

(* C7: an open room with a subscriber has a context.                       *)
C7_SubscribedRoomHasCtx ==
    (room_open /\ subs # {}) => is_some(room_ctx)

(* C8: a save of a room without last updating peer succeeds, calls no      *)
(* store update and leaves store and context unchanged.                    *)
C8_SaveWithoutPeerWritesNothing ==
    [][ (last'.op = "save" /\ is_some(room_ctx) /\ ~is_some(RoomLastUpdatingPeer))
        => /\ last'.status = "Ok"
           /\ ~last'.wrote
           /\ store' = store
           /\ room_ctx' = room_ctx ]_vars

(* a save has just run on a room without last updating peer *)
C8_Witness ==
    /\ last.op = "save" /\ last.status = "Ok" /\ ~last.wrote
    /\ room_open /\ is_some(room_ctx) /\ ~is_some(RoomLastUpdatingPeer)

(* C9: after a save that wrote the store, the room's last_updating_peer is *)
(* None and dirty is false.                                                *)
C9_SaveClearsUpdatingPeer ==
    (last.op = "save" /\ last.status = "Ok" /\ last.wrote)
    => /\ ~is_some(RoomLastUpdatingPeer)
       /\ ~dirty

(* C10: a save that fails (it reports an error, or the package it had to   *)
(* write is not in the store afterwards) keeps the room in the hub, dirty, *)
(* with its context unchanged, so that the next tick saves again.          *)
C10_FailedSaveKeepsDirty ==
    [][ (/\ last'.op = "save"
         /\ \/ last'.status = "Err"
            \/ /\ is_some(RoomLastUpdatingPeer)
               /\ RoomStream' # Some([snapshot |-> doc_vv, peer_map |-> RoomPeerMap]))
        => /\ room_open'
           /\ dirty'
           /\ room_ctx' = room_ctx ]_vars

(* a save of a room with pending changes has just failed *)
C10_Witness ==
    /\ last.op = "save" /\ last.status = "Err"
    /\ room_open /\ dirty /\ is_some(RoomLastUpdatingPeer)
    /\ RoomStream # Some([snapshot |-> doc_vv, peer_map |-> RoomPeerMap])

(* the steps of a version request before its fetch or on the room's handle *)
VersionOps == {"version", "version_frontiers", "version_checkout", "version_answer"}

(* C11: a version request never changes the store: no stream row is        *)
(* inserted or updated by it.                                              *)
C11_VersionNeverWrites ==
    [][ (\/ last'.op \in VersionOps
         \/ /\ last'.op \in {"load_read", "load_insert"}
            /\ is_some(ld[last'.conn].version))
        => store' = store ]_vars

(* C12: a version request leaves the live room unchanged: the room's CRDT  *)
(* document is at the same state afterwards (not detached at the requested *)
(* frontier), so that GET latest answers as before.                        *)
C12_VersionLeavesRoom ==
    [][ (last'.op \in VersionOps /\ room_open)
        => /\ checkout' = checkout
           /\ state_vv' = state_vv
           /\ doc_vv' = doc_vv
           /\ room_ctx' = room_ctx ]_vars

(* C13: a version request that is admitted, names a version without a      *)
(* stored stream and not the version of the open room, and meets no store  *)
(* error, is answered 404.                                                 *)
C13_MissingVersionNotFound ==
    [][ (/\ last'.op \in {"load_read", "load_insert"}
         /\ is_some(ld[last'.conn].version)
         /\ last'.status \notin {"Insert", "Err"}
         /\ ~is_some(fetch_stream_id(store.streams, ld[last'.conn].version, 1)))
        => last'.status = "NotFound" ]_vars

(* both delete requests have answered *)
DeletesDone == \A d \in DeleteReqs : del_pc[d] = "done"

(* C14: when the second of two concurrent delete requests answers, the     *)
(* document is marked deleted, the room is evicted and no subscriber is    *)
(* left, in every interleaving of their store calls and their closes; no   *)
(* close of either request leaves the room open.                           *)
C14_DeletesConverge ==
    [][ /\ (last'.op = "delete_close" /\ DeletesDone')
           => (store'.deleted /\ ~room_open' /\ subs' = {})
        /\ last'.op = "delete_close" => ~room_open' ]_vars

(* both requests answered, the second close saved and evicted a dirty room *)
(* that a subscriber had updated                                           *)
C14_Witness ==
    /\ DeletesDone
    /\ last.op = "delete_close"
    /\ last.wrote
    /\ ~room_open
    /\ conn_state[1] = "open"

(* C15: a delete request that is past its store call has marked the        *)
(* document deleted; when it answers 200 the room has no subscriber and a  *)
(* store load of the document finds nothing; a request that is refused or  *)
(* whose store call fails leaves the room as it is.                        *)
C15_DeleteMarksThenCloses ==
    [][ /\ \A d \in DeleteReqs : del_pc'[d] \in {"marked", "done"} => store'.deleted
        /\ last'.op = "delete_close"
           => /\ del_pc[last'.conn] = "marked"
              /\ store.deleted
              /\ subs' = {}
              /\ load_colab_doc(store', RoomOrg) = None
        /\ (last'.op = "delete" /\ last'.status # "Ok")
           => (UNCHANGED room /\ UNCHANGED store) ]_vars

(* a delete request answered 200 after closing a room with a subscriber's  *)
(* unsaved update                                                          *)
C15_Witness ==
    /\ last.op = "delete_close"
    /\ last.wrote
    /\ store.deleted
    /\ subs = {}
    /\ \E d \in DeleteReqs : del_pc[d] = "done"

(* C16: when a move-to-library request whose edit changed the document     *)
(* has force-closed the room without a failing save and answers 200, the   *)
(* persisted snapshot holds the edit (the cleared ACL containers), the     *)
(* room is evicted and no subscriber remains.                              *)
C16_MoveLibPersistsClearedAcls ==
    [][ (/\ last'.op = "edit_close"
         /\ unwrap(last'.body).changes
         /\ unwrap(last'.body).force
         /\ ~dirty')
        => /\ is_some(RoomStream')
           /\ unwrap(RoomStream').snapshot = doc_vv
           /\ ~room_open'
           /\ subs' = {} ]_vars

(* a document the walk does not support: its type is neither               *)
(* colab-statement nor colab-sheet, or it is a sheet holding a block whose *)
(* type is not a known block type                                          *)
UnsupportedAclDoc(doc) ==
    \/ doc.type \notin {Some("colab-statement"), Some("colab-sheet")}
    \/ /\ doc.type = Some("colab-sheet")
       /\ \E i \in 1..Len(doc.blocks) :
             /\ is_some(doc.blocks[i].type)
             /\ unwrap(doc.blocks[i].type) \notin BlockTypes

(* C17: the walk that clears the ACL containers fails on a document whose  *)
(* type is neither colab-statement nor colab-sheet and on a sheet that     *)
(* holds a block of unknown type.                                          *)
C17_UnknownTypesFail ==
    [][ (last'.op = "reset_acls" /\ UnsupportedAclDoc(acl_doc))
        => last'.status = "Err" ]_vars

(* C18: update_colab_doc is all-or-nothing: when it fails (the stream row  *)
(* or the model row is missing, or the type is unsupported) neither row    *)
(* has changed.                                                            *)
C18_UpdateAllOrNothing ==
    [][ (last'.op = "update_colab_doc" /\ last'.status = "Err")
        => store' = store ]_vars

(* the caller holds the app service principal or is a cloud admin *)
Admitted(prpls) ==
    \E i \in 1..Len(prpls) : prpls[i] \in {"s/" \o AppService, CloudAdminPrpl}

(* the first answer of a request to an admin or export endpoint: a refusal, *)
(* or the request goes on *)
AdminOps == {"diagnostics", "latest", "version", "delete", "move_lib"}

(* C19: an admin or export endpoint (diagnostics, latest, version, delete, *)
(* move-lib) admits a well-formed request exactly when the caller holds    *)
(* s/colabri-app or r/Colabri-CloudAdmin, and a refused request touches    *)
(* neither the room nor the store.                                         *)
C19_AdminEndpointsAdmitServiceOrAdmin ==
    [][ (last'.op \in AdminOps /\ last'.status # "BadRequest")
        => /\ (last'.status # "Forbidden") <=> Admitted(last'.caller)
           /\ last'.status = "Forbidden" => (UNCHANGED room /\ UNCHANGED store) ]_vars

(* C20: a handshake is accepted only with a configured secret, and every   *)
(* accepted handshake has recorded (conn_id, uid, org_id) for a user whose *)
(* resolved principals admit the organization; a rejected handshake leaves *)
(* no entry in the connection registry.                                    *)
C20_AcceptedHandshakeRecorded ==
    [][ last'.op = "handshake"
        => LET ctx == conn_ctx_cache'[last'.conn]
           IN /\ last'.status = "Ok"
                 => /\ cfg_secret
                    /\ is_some(ctx)
                    /\ has_org_principal(get_prpls(unwrap(ctx).uid), unwrap(ctx).org_id)
              /\ last'.status # "Ok" => ~is_some(ctx) ]_vars

(* the loads of a document: the load of a room by on_load_document and the *)
(* steps of fetch_doc_snapshot_from_db                                     *)
LoadOps == {"load", "load_read", "load_insert"}

(* the ids of the "main" streams with content *)
main_streams(streams) ==
    { i \in DOMAIN streams : streams[i].name = "main" /\ is_some(streams[i].content) }

(* C21: a load inserts a stream only when the document has no "main"       *)
(* stream with content; it then inserts exactly one "main" row of version  *)
(* 1 and uses it.  A subscribe to an open room inserts nothing, and any    *)
(* load of a document that has a "main" stream with content inserts        *)
(* nothing and picks such a stream.                                        *)
C21_FirstLoadInsertsOnce ==
    [][ /\ (last'.op \in LoadOps /\ store' # store)
           => LET id == Len(store'.streams) IN
              /\ main_streams(store.streams) = {}
              /\ id = Len(store.streams) + 1
              /\ store' = [store EXCEPT !.streams = Append(@, store'.streams[id])]
              /\ main_streams(store'.streams) = {id}
              /\ store'.streams[id].version = 1
              /\ last'.op = "load"
                 => /\ last'.status = "Ok"
                    /\ is_some(room_ctx')
                    /\ unwrap(room_ctx').doc_stream_id = id
                    /\ doc_vv' = unwrap(store'.streams[id].content).snapshot
              /\ (last'.op = "load_insert" /\ last'.status = "Ok")
                 => last'.body.stream = Some(id)
        /\ last'.op = "join" => store' = store
        /\ (last'.op \in LoadOps /\ main_streams(store.streams) # {})
           => /\ store' = store
              /\ last'.status # "Insert"
              /\ (last'.op = "load" /\ last'.status = "Ok" /\ is_some(room_ctx'))
                 => unwrap(room_ctx').doc_stream_id \in main_streams(store.streams)
              /\ (last'.op = "load_read" /\ last'.status = "Ok")
                 => unwrap(last'.body.stream) \in main_streams(store.streams) ]_vars

(* C25: a client batch that the CRDT fails to import is not reported as Ok *)
(* to its sender, changes neither the room's document nor its context, is  *)
(* not fanned out and leaves the room open.                                *)
C25_FailedImportReported ==
    [][ (last'.op = "update" /\ last'.body = Some("import_failed"))
        => /\ last'.status # "Ok"
           /\ doc_vv' = doc_vv
           /\ room_ctx' = room_ctx
           /\ last'.fanout = {}
           /\ room_open' ]_vars

(* C29: after an accepted update that advanced a peer, the room's          *)
(* last_updating_peer is the updating peer of that update, and a save of   *)
(* the room is attributed to the principal that peer is bound to.          *)
C29_AcceptSetsLastUpdatingPeer ==
    [][ (last'.op = "update" /\ last'.status = "Ok" /\ is_some(last'.peer))
        => /\ RoomLastUpdatingPeer' = last'.peer
           /\ unwrap(last'.peer) \in DOMAIN RoomPeerMap'
           /\ save_by_prpl(unwrap(room_ctx')) =
                 [kind |-> "some", prpl |-> RoomPeerMap'[unwrap(last'.peer)]] ]_vars

(* an accepted update on one peer follows an accepted update on the other: *)
(* the last updating peer has moved to the second one                      *)
C29_Witness ==
    /\ last.op = "update"
    /\ last.status = "Ok"
    /\ last.peer = Some(2)
    /\ RoomLastUpdatingPeer = Some(2)
    /\ doc_vv[1] > 0
    /\ 1 \in DOMAIN RoomPeerMap
    /\ RoomPeerMap[1] # ServicePrpl

(* C30: an update is admitted only when the submitting connection has an   *)
(* entry in the connection registry and its user has an entry in the       *)
(* identity cache.                                                         *)
C30_AdmitNeedsLiveIdentity ==
    [][ (last'.op = "update" /\ last'.status = "Ok" /\ is_some(last'.peer))
        => /\ is_some(conn_ctx_cache[last'.conn])
           /\ is_some(user_ctx_cache[unwrap(conn_ctx_cache[last'.conn]).uid]) ]_vars

(* C26: an update under the reserved connection id is admitted under the   *)
(* principal s/colabri-system and leaves the connection registry alone.    *)
C26_SystemUpdateAdmitted ==
    [][ last'.op = "system_update"
        => /\ last'.status = "Ok"
           /\ unwrap(last'.peer) \in DOMAIN RoomPeerMap'
           /\ RoomPeerMap'[unwrap(last'.peer)] = "s/colabri-system"
           /\ conn_ctx_cache' = conn_ctx_cache ]_vars
(* C28: a text element nested at the depth limit keeps its nodeName and    *)
(* attributes in the CRDT map; the element one level deeper is the         *)
(* truncated sentinel.  The map and the element at depth d are the entries *)
(* d + 1 of the converted and of the source path.                          *)
C28_LimitDepthEncoded ==
    (is_some(txt.out) /\ MAX_DEPTH + 1 \in DOMAIN unwrap(txt.elem).path)
    => LET out == unwrap(txt.out)
           path == unwrap(txt.elem).path
       IN /\ MAX_DEPTH + 1 \in DOMAIN out
          /\ out[MAX_DEPTH + 1].nodeName = path[MAX_DEPTH + 1].node_name
          /\ "attributes" \in DOMAIN out[MAX_DEPTH + 1]
          /\ out[MAX_DEPTH + 1].attributes = path[MAX_DEPTH + 1].attributes
          /\ MAX_DEPTH + 2 \in DOMAIN path
               => /\ MAX_DEPTH + 2 \in DOMAIN out
                  /\ out[MAX_DEPTH + 2] =
                        [nodeName |-> "truncated", children |-> "[Max depth exceeded]"]
(* C27: a lookup that fails leaves the identity cache as it was, and a      *)
(* lookup is answered without asking the principal service only for a user *)
(* the cache has an entry of.                                              *)
C27_FailedLookupLeavesCache ==
    [][ last'.op = "lookup"
        => LET b == unwrap(last'.body) IN
           /\ last'.status = "Err" => identity_cache' = identity_cache
           /\ (last'.status = "Ok" /\ ~b.fetched) => is_some(identity_cache[b.uid]) ]_vars

(* a lookup of a user without entry has just failed at the principal       *)
(* service, beside the cached context of another user                      *)
C27_Witness ==
    /\ last.op = "lookup"
    /\ last.status = "Err"
    /\ unwrap(last.body).uid = "a"
    /\ unwrap(last.body).rpc = "err"
    /\ unwrap(last.body).fetched
    /\ ~is_some(identity_cache["a"])
    /\ is_some(identity_cache["adm"])
(* C22: the updates forwarded to a subscriber arrive in the order in which *)
(* they were applied to the session's document.                            *)
C22_FanoutInApplyOrder ==
    sock.open =>
        \A c \in SockIds :
            LET got == sock.conn[c].got IN
            \A i \in DOMAIN got, j \in DOMAIN got :
                i < j =>
                    \A a \in DOMAIN sock.doc, b \in DOMAIN sock.doc :
                        (sock.doc[a] = got[i] /\ sock.doc[b] = got[j]) => a < b

(* C23: an update applied to the session's document was sent on the        *)
(* channel, or the send_task of its connection still holds it.             *)
C23_AppliedIsFannedOut ==
    sock.open =>
        \A k \in DOMAIN sock.doc :
            \/ \E m \in DOMAIN sock.bc : sock.bc[m].update = sock.doc[k]
            \/ \E c \in SockIds : sock.conn[c].upd = sock.doc[k]

(* the messages of the channel that wait for the receiver of a connection *)
queued(sk, c) ==
    (IF sk.conn[c].lim < 0 THEN Len(sk.bc) ELSE sk.conn[c].lim) - sk.conn[c].rx + 1

(* a subscribed connection whose queue exceeds the capacity of the channel *)
over_capacity(sk, c) ==
    /\ sk.conn[c].rcv \in {"idle", "taken"}
    /\ c \in sk.active
    /\ queued(sk, c) > SockCap

(* C24: a subscriber whose queue exceeds the capacity of the channel is    *)
(* disconnected: it leaves the active connections of the session.          *)
C24_LaggingSubscriberDropped ==
    \A c \in SockPair : over_capacity(sock, c) ~> (c \notin sock.active)

(* C37: the doc_version of the context a load produces is the version of   *)
(* the stream the context names; every stream row has version              *)
(* StoredVersion, so a latest answer carries that version.                 *)
C37_ContextVersionIsStreamVersion ==
    [][ (/\ \/ last'.op = "latest"
            \/ /\ last'.op \in {"load_read", "load_insert"}
               /\ ~is_some(ld[last'.conn].version)
         /\ last'.status = "Ok")
        => last'.body.version = StoredVersion ]_vars

(* C34: whenever the room's context names a last updating peer, the peer   *)
(* map binds that peer, so the save finds a principal for it.              *)
C34_UpdatingPeerIsBound ==
    (room_open /\ is_some(RoomLastUpdatingPeer))
    => /\ unwrap(RoomLastUpdatingPeer) \in DOMAIN RoomPeerMap
       /\ save_by_prpl(unwrap(room_ctx)).kind = "some"

C34_Witness ==
    /\ edit_pc.pc = "edited"
    /\ edit_pc.changes
    /\ edit_pc.peer_id \notin DOMAIN RoomPeerMap
    /\ is_some(RoomLastUpdatingPeer)
    /\ unwrap(RoomLastUpdatingPeer) # edit_pc.peer_id
    /\ dirty
(* C36: the principals computed for a request contain the role principal   *)
(* of a role only if the token of that request carries the role.           *)
C36_RolePrplsFromThisToken ==
    [][ (last'.op = "lookup" /\ last'.status = "Ok")
        => \A i \in 1..Len(unwrap(last'.body).prpls) :
              unwrap(last'.body).prpls[i] = "r/Admin"
              => \E j \in 1..Len(unwrap(last'.body).token_roles) :
                    unwrap(last'.body).token_roles[j] = "Admin" ]_vars
(* C33: a binary frame or a receive error does not end the receive loop of *)
(* a connection: the connection stays in the session, waiting for its next *)
(* frame.                                                                  *)
C33_LoopSurvivesBinaryAndError ==
    [][ (last'.op = "sock_frame" /\ last'.status \in {"binary", "error"})
        => /\ sock'.conn[last'.conn].pc = "running"
           /\ sock'.conn[last'.conn].snd = "idle"
           /\ last'.conn \in sock'.active ]_vars

(* C35: the session of a document is removed from the map only when no    *)
(* connection is registered in its active_connections.                     *)
C35_RemovedOnlyWhenEmpty ==
    [][ (last'.op = "sock_remove" /\ last'.status = "Ok") => sock.active = {} ]_vars

(* C39: a move-to-library request that returns an error leaves the library *)
(* assignment of the document in the store as it was before the request,   *)
(* and the ACL containers of the room's document unchanged.                *)
C39_FailedMoveKeepsLibrary ==
    [][ /\ (last'.op = "move_lib" /\ last'.status = "Err") => lib' = lib
        /\ (edit_pc.pc = "moved" /\ edit_pc'.pc = "idle")
              => (lib' = edit_pc.lib /\ acl_doc' = acl_doc) ]_vars
(* C31: each load selects a "main" stream with content of the greatest     *)
(* version among such streams, and selects none only when the document has *)
(* no such stream.                                                         *)
C31_SelectsGreatestMain ==
    sel.done =>
        LET cands == { i \in DOMAIN sel.streams :
                          sel.streams[i].name = "main" /\ is_some(sel.streams[i].content) }
        IN \A r \in {sel.fetch, sel.load} :
              IF cands = {} THEN r = 0
              ELSE /\ r \in cands
                   /\ \A j \in cands : sel.streams[j].version <= sel.streams[r].version
(* C38: the loads of a document without stream rows insert at most one     *)
(* stream row between them, and those that got a stream got the same one.  *)
C38_OneStreamInserted ==
    [][ /\ Len(store'.streams) <= 1
        /\ (last'.op \in {"load_read", "load_insert"} /\ last'.status = "Ok")
              => last'.body.stream = Some(1) ]_vars

(* C32: no request awaits the store while it holds the guard of            *)
(* registry.hubs().                                                        *)
C32_NoStoreCallUnderLock ==
    \A l \in Loaders :
        ld[l].pc \in {"read", "insert"} => ~holds_hubs_lock(ld[l].version)
====
